---- MODULE Spec2Model ----
(***************************************************************************)
(* A model of WakfuDB/animation-renderer: the transform algebra and the    *)
(* frame-stream reader of src/src/render.ts, the recursive sprite walker   *)
(* (Renderer.renderSprite / renderById) and the binary decoder             *)
(* readAnimation of the parser.                                            *)
(*                                                                         *)
(* Numbers are integers.  A JavaScript `undefined` read from an array past *)
(* its end, and the NaN every arithmetic on it gives, are the one value    *)
(* NaN, which every arithmetic operator below propagates.                  *)
(***************************************************************************)
EXTENDS Integers, Sequences, FiniteSets, TLC

VARIABLES
    rdData,     \* FrameReader.data.buffer
    rdPos,      \* FrameReader.position
    rdOut,      \* what the last FrameReader.read() call did
    world,      \* the AnimationRenderer tree: the root and its references
    start,      \* the AnimationSprite the caller renders
    frame,      \* the frame of the render pass
    stack,      \* the call stack of renderSprite, innermost call last
    log,        \* the calls of the blit sink (Renderer.render) in this pass
    status,     \* idle, running, done, or the error that ended the pass
    ev,         \* what the last renderById call did
    nested,     \* the frame counts of the Frames sprites this pass has entered below the first
    skipped,    \* the ids this pass handed to renderById that resolved to nothing
    results,    \* the finished passes, by frame
    found,      \* what the last findStaticSprite call returned
    file,       \* the sections the buffer was written from, in file order
    input,      \* the buffer handed to the BinaryReader
    cursor,     \* the position of the BinaryReader
    fields,     \* what has been read so far, in the order read
    phase,      \* "idle", "reading", "done" or "fatal"
    calc,       \* the last call of a pure operation: its operands and its result
    loader,     \* AnimationRenderer.fromFile: the file system and the files it read
    video       \* AnimationRenderer.renderVideo: the measurement, the frames, the encoder

rdVars == <<rdData, rdPos, rdOut>>

walkVars == <<world, start, frame, stack, log, nested, skipped, status, ev, results>>

stVars == <<found>>

decVars == <<file, input, cursor, fields, phase>>

restVars == <<calc, loader, video>>

vars == <<rdData, rdPos, rdOut, world, start, frame, stack, log, nested, skipped, status, ev,
          results, found, file, input, cursor, fields, phase, calc, loader, video>>

\* what the actions of one part of the program leave alone
notRead == <<walkVars, stVars, decVars, restVars>>

notWalk == <<rdVars, stVars, decVars, restVars>>

notStatic == <<rdVars, walkVars, decVars, restVars>>

notDecode == <<rdVars, walkVars, stVars, restVars>>

(***************************************************************************)
(* Bounds of the model.                                                    *)
(***************************************************************************)
\* opcodes 0..MaxTag are tried; 16 and above are the unrecognised ones
MaxTag == 16
\* the offsets that follow an opcode are drawn from 0..MaxOffset
MaxOffset == 1
\* the caller renders the frames 0..MaxFrame of a sprite, one pass each
MaxFrame == 2
\* the calls of renderSprite the call stack has room for
MaxDepth == 4

(***************************************************************************)
(* JavaScript numbers and arrays.                                          *)
(***************************************************************************)
NaN == -999999

Null == [kind |-> "null"]

Plus(a, b) == IF a = NaN \/ b = NaN THEN NaN ELSE a + b

Times(a, b) == IF a = NaN \/ b = NaN THEN NaN ELSE a * b

\* arr[i] of a JavaScript array (0-based; undefined outside it)
At(arr, i) == IF i = NaN \/ i < 0 \/ i >= Len(arr) THEN NaN ELSE arr[i + 1]

(***************************************************************************)
(* ColorTransform (render.ts 25-77).  combinedColors is <<>> unless the    *)
(* kind is Combine.                                                        *)
(***************************************************************************)
ColorTransform(kind, transform, combinedColors) ==
    [kind |-> kind, transform |-> transform, combinedColors |-> combinedColors]

ColorIdentity == ColorTransform("Add", <<0, 0, 0, 0>>, <<>>)

\* a combine whose generic case pairs the operands the other way round
ColorCombineSwapped(self, other) ==
    IF self.kind = "Multiply" /\ other.kind = "Multiply"
    THEN ColorTransform("Multiply",
             [i \in 1..4 |-> Times(self.transform[i], other.transform[i])], <<>>)
    ELSE IF self.kind = "Add" /\ other.kind = "Add"
    THEN ColorTransform("Add",
             [i \in 1..4 |-> Plus(self.transform[i], other.transform[i])], <<>>)
    ELSE ColorTransform("Combine", <<0, 0, 0, 0>>, <<other, self>>)

ColorCombine(self, other) ==
    IF self.kind = "Multiply" /\ other.kind = "Multiply"
    THEN ColorTransform("Multiply",
             [i \in 1..4 |-> Times(self.transform[i], other.transform[i])], <<>>)
    ELSE IF self.kind = "Add" /\ other.kind = "Add"
    THEN ColorTransform("Add",
             [i \in 1..4 |-> Plus(self.transform[i], other.transform[i])], <<>>)
    ELSE ColorTransform("Combine", <<0, 0, 0, 0>>, <<self, other>>)

RECURSIVE ColorFold(_, _)
\* self.fold(color)
ColorFold(self, color) ==
    IF self.kind = "Multiply"
    THEN [i \in 1..4 |-> Times(self.transform[i], color[i])]
    ELSE IF self.kind = "Add"
    THEN [i \in 1..4 |-> Plus(self.transform[i], color[i])]
    ELSE ColorFold(self.combinedColors[1], ColorFold(self.combinedColors[2], color))

intoColor(self) == ColorFold(self, <<1, 1, 1, 1>>)

(***************************************************************************)
(* Transform2D (render.ts 139-206).                                        *)
(***************************************************************************)
Transform2D(m11, m12, m21, m22, m31, m32) ==
    [m11 |-> m11, m12 |-> m12, m21 |-> m21, m22 |-> m22, m31 |-> m31, m32 |-> m32]

T2Identity == Transform2D(1, 0, 0, 1, 0, 0)

T2Translate(x, y) == Transform2D(1, 0, 0, 1, x, y)

T2Rotate(x0, y0, x1, y1) == Transform2D(x0, y0, x1, y1, 0, 0)

T2Scale(x, y) == Transform2D(x, 0, 0, y, 0, 0)

T2Mult(self, other) ==
    Transform2D(
        Plus(Times(self.m11, other.m11), Times(self.m12, other.m21)),
        Plus(Times(self.m11, other.m12), Times(self.m12, other.m22)),
        Plus(Times(self.m21, other.m11), Times(self.m22, other.m21)),
        Plus(Times(self.m21, other.m12), Times(self.m22, other.m22)),
        Plus(Plus(Times(self.m31, other.m11), Times(self.m32, other.m21)), other.m31),
        Plus(Plus(Times(self.m31, other.m12), Times(self.m32, other.m22)), other.m32))

(***************************************************************************)
(* SpriteTransform (render.ts 208-250).                                    *)
(***************************************************************************)
SpriteTransform(position, color) == [position |-> position, color |-> color]

SpriteIdentity == SpriteTransform(T2Identity, ColorIdentity)

SpriteCombine(self, other) ==
    SpriteTransform(T2Mult(self.position, other.position),
                    ColorCombine(self.color, other.color))

SpriteTranslate(x, y) == SpriteTransform(T2Translate(x, y), ColorIdentity)

SpriteRotate(x0, y0, x1, y1) == SpriteTransform(T2Rotate(x0, y0, x1, y1), ColorIdentity)

SpriteScale(x, y) == SpriteTransform(T2Scale(x, y), ColorIdentity)

SpriteColorMultiply(r, g, b, alpha) ==
    SpriteTransform(T2Identity, ColorTransform("Multiply", <<r, g, b, alpha>>, <<>>))

SpriteColorAdd(r, g, b, alpha) ==
    SpriteTransform(T2Identity, ColorTransform("Add", <<r, g, b, alpha>>, <<>>))

(***************************************************************************)
(* TransformTable (render.ts 252-263).                                     *)
(***************************************************************************)
TransformTable(colors, rotations, translations) ==
    [colors |-> colors, rotations |-> rotations, translations |-> translations]

TableDefault == TransformTable(<<>>, <<>>, <<>>)

\* the table of the animations of the model: every offset gives other values
TheTable == TransformTable(<<2, 3, 5, 7, 11>>, <<1, 2, 3, 4, 5>>, <<10, 20, 30>>)

(***************************************************************************)
(* FrameReader (render.ts 265-369).  A read is a function of the buffer,   *)
(* the table and the position; it gives the value read and the position    *)
(* after it.                                                               *)
(***************************************************************************)
ReadResult(t, pos) == [t |-> t, pos |-> pos]

readInt(data, pos) == ReadResult(At(data, pos), Plus(pos, 1))

readTranslation(data, table, pos) ==
    LET offset == readInt(data, pos).t
    IN  ReadResult(SpriteTranslate(At(table.translations, offset),
                                   At(table.translations, Plus(offset, 1))),
                   Plus(pos, 1))

readRotation(data, table, pos) ==
    LET offset == readInt(data, pos).t
        x0 == At(table.rotations, offset)
        x1 == At(table.rotations, Plus(offset, 1))
        y0 == At(table.rotations, Plus(offset, 2))
        y1 == At(table.rotations, Plus(offset, 3))
    IN  ReadResult(SpriteRotate(x0, x1, y0, y1), Plus(pos, 1))

readColorMultiply(data, table, pos) ==
    LET offset == readInt(data, pos).t
    IN  ReadResult(SpriteColorMultiply(At(table.colors, offset),
                                       At(table.colors, Plus(offset, 1)),
                                       At(table.colors, Plus(offset, 2)),
                                       At(table.colors, Plus(offset, 3))),
                   Plus(pos, 1))

\* readColorAdd with the body of readColorMultiply pasted in
readColorAddAsMultiply(data, table, pos) == readColorMultiply(data, table, pos)

readColorAdd(data, table, pos) ==
    LET offset == readInt(data, pos).t
    IN  ReadResult(SpriteColorAdd(At(table.colors, offset),
                                  At(table.colors, Plus(offset, 1)),
                                  At(table.colors, Plus(offset, 2)),
                                  At(table.colors, Plus(offset, 3))),
                   Plus(pos, 1))

\* a.combine(b) where a has been read and b is read next, at a.pos
thenRotation(data, table, a) ==
    LET b == readRotation(data, table, a.pos)
    IN  ReadResult(SpriteCombine(a.t, b.t), b.pos)

thenTranslation(data, table, a) ==
    LET b == readTranslation(data, table, a.pos)
    IN  ReadResult(SpriteCombine(a.t, b.t), b.pos)

thenColorAdd(data, table, a) ==
    LET b == readColorAdd(data, table, a.pos)
    IN  ReadResult(SpriteCombine(a.t, b.t), b.pos)

read(data, table, pos) ==
    LET tag == readInt(data, pos).t
        p == Plus(pos, 1)
    IN  CASE tag = 0 -> ReadResult(SpriteIdentity, p)
          [] tag = 1 -> readRotation(data, table, p)
          [] tag = 2 -> readTranslation(data, table, p)
          [] tag = 3 -> thenTranslation(data, table, readRotation(data, table, p))
          [] tag = 4 -> readColorMultiply(data, table, p)
          [] tag = 5 -> thenRotation(data, table, readColorMultiply(data, table, p))
          [] tag = 6 -> thenTranslation(data, table, readColorMultiply(data, table, p))
          [] tag = 7 -> thenTranslation(data, table,
                            thenRotation(data, table, readColorMultiply(data, table, p)))
          [] tag = 8 -> readColorAdd(data, table, p)
          [] tag = 9 -> thenRotation(data, table, readColorAdd(data, table, p))
          [] tag = 10 -> thenTranslation(data, table, readColorAdd(data, table, p))
          [] tag = 11 -> thenTranslation(data, table,
                             thenRotation(data, table, readColorAdd(data, table, p)))
          [] tag = 12 -> thenColorAdd(data, table, readColorMultiply(data, table, p))
          [] tag = 13 -> thenRotation(data, table,
                             thenColorAdd(data, table, readColorMultiply(data, table, p)))
          [] tag = 14 -> thenTranslation(data, table,
                             thenColorAdd(data, table, readColorMultiply(data, table, p)))
          [] tag = 15 -> thenTranslation(data, table,
                             thenRotation(data, table,
                                 thenColorAdd(data, table, readColorMultiply(data, table, p))))
          [] OTHER -> ReadResult(Null, p)

(***************************************************************************)
(* The animation model the walker reads (types.ts): sprites, shapes and    *)
(* the renderer tree.  A renderer of `world` is named by its index; parent *)
(* is 0 for the root, which has none.                                      *)
(***************************************************************************)
\* A sprite name is a string, here a sequence of pieces of text (<<>> is the
\* empty string).  NoName is name.name of a sprite whose hasName flag is
\* clear: null, which is no string.
NoName == <<"<null>">>

Payload(kind, spriteId, spriteIds, framePos, spriteInfo, actionInfo) ==
    [kind |-> kind, spriteId |-> spriteId, spriteIds |-> spriteIds,
     framePos |-> framePos, spriteInfo |-> spriteInfo, actionInfo |-> actionInfo]

Single(spriteId) == Payload("Single", spriteId, <<>>, <<>>, <<>>, <<>>)

SingleNoAction(spriteId) == Payload("SingleNoAction", spriteId, <<>>, <<>>, <<>>, <<>>)

SingleFrame(spriteIds) == Payload("SingleFrame", NaN, spriteIds, <<>>, <<>>, <<>>)

Frames(framePos, spriteInfo, actionInfo) ==
    Payload("Frames", NaN, <<>>, framePos, spriteInfo, actionInfo)

\* the payload of a sprite whose tag is none of 1..4
NoPayload == Payload("undefined", NaN, <<>>, <<>>, <<>>, <<>>)

Sprite(id, name, payload, frameData) ==
    [id |-> id, name |-> name, payload |-> payload, frameData |-> frameData]

Shape(id, width, height, offset_x, offset_y) ==
    [id |-> id, width |-> width, height |-> height,
     offset_x |-> offset_x, offset_y |-> offset_y]

\* an AnimationRenderer: its decoded animation, its references and its parent
Renderer(sprites, shapes, transform, references, parent) ==
    [sprites |-> sprites, shapes |-> shapes, transform |-> transform,
     references |-> references, parent |-> parent]

AnimationSprite(animation, name, sprite, reference) ==
    [animation |-> animation, name |-> name, sprite |-> sprite, reference |-> reference]

\* Array.prototype.find: the index of the first element with the property, or 0
FirstWithId(arr, id) ==
    IF \E i \in 1..Len(arr) : arr[i].id = id
    THEN CHOOSE i \in 1..Len(arr) :
             /\ arr[i].id = id
             /\ \A j \in 1..(i - 1) : arr[j].id # id
    ELSE 0

FirstWithName(arr, name) ==
    IF \E i \in 1..Len(arr) : arr[i].name = name
    THEN CHOOSE i \in 1..Len(arr) :
             /\ arr[i].name = name
             /\ \A j \in 1..(i - 1) : arr[j].name # name
    ELSE 0

RECURSIVE loadSprite(_, _, _)
RECURSIVE loadSpriteFromReferences(_, _, _, _)
loadSprite(w, a, spriteName) ==
    LET i == FirstWithName(w[a].sprites, spriteName)
    IN  IF i # 0
        THEN AnimationSprite(a, spriteName, w[a].sprites[i], -1)
        ELSE loadSpriteFromReferences(w, a, spriteName, 1)

\* the loop of loadSprite over this.references, from the index-th on
loadSpriteFromReferences(w, a, spriteName, index) ==
    IF index > Len(w[a].references) THEN Null
    ELSE LET spriteFromReference == loadSprite(w, w[a].references[index], spriteName)
         IN  IF spriteFromReference # Null THEN spriteFromReference
             ELSE loadSpriteFromReferences(w, a, spriteName, index + 1)

findSpriteById(w, a, id) ==
    LET i == FirstWithId(w[a].sprites, id)
    IN  IF i # 0
        THEN [loadSprite(w, a, w[a].sprites[i].name) EXCEPT !.reference = -1]
        ELSE Null

\* animation.parent?.findSpriteById(id)
findParentSpriteById(w, a, id) ==
    IF w[a].parent = 0 THEN Null ELSE findSpriteById(w, w[a].parent, id)

\* animation.animation.shapes.find((s) => s.id === id)
findShapeById(w, a, id) ==
    LET i == FirstWithId(w[a].shapes, id)
    IN  IF i # 0 THEN w[a].shapes[i] ELSE Null

(***************************************************************************)
(* Renderer.renderSprite (render.ts 492-523) up to its loop: the reader it *)
(* makes and the ids it will hand to renderById.                           *)
(***************************************************************************)
\* a % b of JavaScript, for a >= 0
Mod(a, b) == IF a = NaN \/ b = NaN \/ b = 0 THEN NaN ELSE a % b

\* a / b of JavaScript where b divides a
Div(a, b) == IF a = NaN \/ b = NaN THEN NaN ELSE a \div b

\* an index argument of Array.prototype.slice, made absolute
SliceIndex(k, len) ==
    IF k = NaN THEN 0
    ELSE IF k < 0 THEN (IF len + k < 0 THEN 0 ELSE len + k)
    ELSE IF k > len THEN len ELSE k

\* arr.slice(from, to)
Slice(arr, from, to) ==
    LET a == SliceIndex(from, Len(arr))
        b == SliceIndex(to, Len(arr))
    IN  IF a < b THEN SubSeq(arr, a + 1, b) ELSE <<>>

\* a count that takes every entry of framePos for a frame
countFramesUndivided(sprite) ==
    IF sprite.payload.kind = "Frames"
    THEN Len(sprite.payload.framePos)
    ELSE 1

countFrames(sprite) ==
    IF sprite.payload.kind = "Frames"
    THEN LET divisor == IF Len(sprite.payload.actionInfo) = 0 THEN 2 ELSE 3
         IN  Div(Len(sprite.payload.framePos), divisor)
    ELSE 1

\* the framePos entry of a frame taken without the "% frameCount"
frameIndexUnwrapped(fr, frameCount, mult) == Times(fr, mult)

frameIndex(fr, frameCount, mult) == Times(Mod(fr, frameCount), mult)

\* the transform table of the renderer, or the default one
tableOf(w, a) == IF w[a].transform # Null THEN w[a].transform ELSE TableDefault

\* [ids, pos]: the ids renderSprite iterates and where its reader starts
spriteChildren(sprite, fr) ==
    LET payload == sprite.payload
    IN  CASE payload.kind \in {"Single", "SingleNoAction"} ->
               [ids |-> <<payload.spriteId>>, pos |-> 0]
          [] payload.kind = "SingleFrame" ->
               [ids |-> payload.spriteIds, pos |-> 0]
          [] payload.kind = "Frames" ->
               LET mult == IF Len(payload.actionInfo) = 0 THEN 2 ELSE 3
                   frameCount == Div(Len(payload.framePos), mult)
                   index == frameIndex(fr, frameCount, mult)
                   offset == At(payload.framePos, index)
                   current == At(payload.framePos, Plus(index, 1))
                   count == At(payload.spriteInfo, current)
               IN  [ids |-> Slice(payload.spriteInfo, Plus(current, 1),
                                  Plus(Plus(current, 1), count)),
                    pos |-> offset]

(***************************************************************************)
(* Renderer.renderById (render.ts 462-487), one call.                      *)
(***************************************************************************)
\* !transform, with the identity transform taken for a missing one
missingOrIdentity(transform) == transform = Null \/ transform = SpriteIdentity

\* !transform
missing(transform) == transform = Null

\* parent.combine(transform): the parent on the left
finalTransformParentFirst(transform, parent) == SpriteCombine(parent, transform)

finalTransform(transform, parent) == SpriteCombine(transform, parent)

\* the resolution with the shape looked up before the parent's sprites
resolveShapeFirst(w, a, id) ==
    LET sprite == findSpriteById(w, a, id)
        shape == findShapeById(w, a, id)
        parentSprite == findParentSpriteById(w, a, id)
    IN  IF sprite # Null THEN [kind |-> "sprite", sprite |-> sprite, shape |-> Null]
        ELSE IF shape # Null THEN [kind |-> "shape", sprite |-> Null, shape |-> shape]
        ELSE IF parentSprite # Null
        THEN [kind |-> "parentSprite", sprite |-> parentSprite, shape |-> Null]
        ELSE [kind |-> "none", sprite |-> Null, shape |-> Null]

\* what renderById does with an id: the first of the three lookups that hits
resolve(w, a, id) ==
    LET sprite == findSpriteById(w, a, id)
        parentSprite == findParentSpriteById(w, a, id)
        shape == findShapeById(w, a, id)
    IN  IF sprite # Null THEN [kind |-> "sprite", sprite |-> sprite, shape |-> Null]
        ELSE IF parentSprite # Null
        THEN [kind |-> "parentSprite", sprite |-> parentSprite, shape |-> Null]
        ELSE IF shape # Null THEN [kind |-> "shape", sprite |-> Null, shape |-> shape]
        ELSE [kind |-> "none", sprite |-> Null, shape |-> Null]

(***************************************************************************)
(* The parts of the state a specification leaves alone stay as they are    *)
(* before anything has run.                                                *)
(***************************************************************************)
NoRead == [tag |-> NaN, start |-> 0, pos |-> 0, t |-> Null, done |-> FALSE]

ReadIdle ==
    /\ rdData = <<>>
    /\ rdPos = 0
    /\ rdOut = NoRead

NoEv == [kind |-> "-", id |-> NaN, tag |-> NaN, animation |-> 0, parent |-> Null,
         transform |-> Null, final |-> Null, logLen |-> 0, depth |-> 0]

NotCalled == [called |-> FALSE, animation |-> 0, result |-> Null]

StaticIdle == found = NotCalled

RestIdle ==
    /\ calc = NotCalled
    /\ loader = NotCalled
    /\ video = NotCalled

\* no buffer is being decoded
DecodeIdle ==
    /\ file = <<>>
    /\ input = <<>>
    /\ cursor = 0
    /\ fields = <<>>
    /\ phase = "idle"

\* no render pass has run
PassIdle ==
    /\ start = Null
    /\ frame = 0
    /\ stack = <<>>
    /\ log = <<>>
    /\ nested = {}
    /\ skipped = <<>>
    /\ status = "idle"
    /\ ev = NoEv
    /\ results = <<>>

WalkIdle ==
    /\ world = <<>>
    /\ PassIdle

(***************************************************************************)
(* The reader on its own: a buffer that starts with an opcode and four     *)
(* offsets, or a prefix of one, read and sought any number of times.       *)
(***************************************************************************)
ReadBuffers ==
    { SubSeq(<<tag, o1, o2, o3, o4>>, 1, n) :
        tag \in 0..MaxTag, o1 \in 0..MaxOffset, o2 \in 0..MaxOffset,
        o3 \in 0..MaxOffset, o4 \in 0..MaxOffset, n \in 0..5 }

InitRead ==
    /\ rdData \in ReadBuffers
    /\ rdPos = 0
    /\ rdOut = NoRead
    /\ WalkIdle
    /\ StaticIdle
    /\ DecodeIdle
    /\ RestIdle

\* reader.read(): a read at or past the end of the buffer finds undefined
FrameRead ==
    /\ rdPos <= Len(rdData)
    /\ LET r == read(rdData, TheTable, rdPos)
       IN  /\ rdOut' = [tag |-> At(rdData, rdPos), start |-> rdPos, pos |-> r.pos,
                        t |-> r.t, done |-> TRUE]
           /\ rdPos' = r.pos
    /\ UNCHANGED <<rdData, notRead>>

\* reader.seek(position)
FrameSeek ==
    /\ \E position \in 0..Len(rdData) :
           /\ position # rdPos
           /\ rdPos' = position
    /\ UNCHANGED <<rdData, rdOut, notRead>>

NextRead == FrameRead \/ FrameSeek

SpecRead == InitRead /\ [][NextRead]_vars

(***************************************************************************)
(* C1.  FrameReader.read() follows the opcode table: for a tag in 0..15 it *)
(* consumes the tag and one offset per component the tag's bits select     *)
(* (4 color-multiply, 8 color-add, 1 rotation, 2 translation), reads them  *)
(* in the order color-multiply, color-add, rotation, translation, each     *)
(* from the table at its own offset, and returns their left-to-right       *)
(* combination (the identity for tag 0, which consumes the tag alone); for *)
(* any other tag it returns no transform.                                  *)
(***************************************************************************)
Bit(tag, b) == (tag \div b) % 2 = 1

\* the components the table lists for a tag, in the order they are read
TableRow(tag) ==
    (IF Bit(tag, 4) THEN <<"color-multiply">> ELSE <<>>) \o
    (IF Bit(tag, 8) THEN <<"color-add">> ELSE <<>>) \o
    (IF Bit(tag, 1) THEN <<"rotation">> ELSE <<>>) \o
    (IF Bit(tag, 2) THEN <<"translation">> ELSE <<>>)

\* the transform a component stands for, its offset being o
ComponentAt(what, table, o) ==
    CASE what = "color-multiply" ->
           SpriteTransform(T2Identity,
               ColorTransform("Multiply", [i \in 1..4 |-> At(table.colors, Plus(o, i - 1))], <<>>))
      [] what = "color-add" ->
           SpriteTransform(T2Identity,
               ColorTransform("Add", [i \in 1..4 |-> At(table.colors, Plus(o, i - 1))], <<>>))
      [] what = "rotation" ->
           SpriteTransform(
               Transform2D(At(table.rotations, o), At(table.rotations, Plus(o, 1)),
                           At(table.rotations, Plus(o, 2)), At(table.rotations, Plus(o, 3)),
                           0, 0),
               ColorIdentity)
      [] what = "translation" ->
           SpriteTransform(
               Transform2D(1, 0, 0, 1, At(table.translations, o),
                           At(table.translations, Plus(o, 1))),
               ColorIdentity)

RECURSIVE RowTransform(_, _, _, _, _)
\* row[1] . row[2] . ... . row[n], the k-th component's offset at from + k
RowTransform(row, n, data, table, from) ==
    IF n = 1 THEN ComponentAt(row[1], table, At(data, from + 1))
    ELSE SpriteCombine(RowTransform(row, n - 1, data, table, from),
                       ComponentAt(row[n], table, At(data, from + n)))

C1_ReadFollowsOpcodeTable ==
    rdOut.done =>
        IF rdOut.tag \in 0..15
        THEN /\ rdOut.pos = rdOut.start + 1 + Len(TableRow(rdOut.tag))
             /\ rdOut.t = IF rdOut.tag = 0 THEN SpriteIdentity
                          ELSE RowTransform(TableRow(rdOut.tag), Len(TableRow(rdOut.tag)),
                                            rdData, TheTable, rdOut.start)
        ELSE rdOut.t = Null

\* a read of opcode 15 with its four offsets in the buffer has happened
C1_Witness ==
    /\ rdOut.done
    /\ rdOut.tag = 15
    /\ rdOut.start = 0
    /\ Len(rdData) = 5
    /\ rdOut.pos = 5
    /\ rdOut.t # Null

(***************************************************************************)
(* The walker: render passes over one renderer tree.  The caller renders   *)
(* the frames 0, 1, ..., MaxFrame of one sprite, one pass after the other  *)
(* (AnimationRenderer.renderFrame, Measurer.measureFrame); a pass is the   *)
(* recursion renderSprite -> renderById -> renderSprite, one call a step.  *)
(***************************************************************************)
Shape2 == Shape(2, 4, 6, 1, 1)

Shape3 == Shape(3, 10, 10, 0, 0)

RefShape1 == Shape(1, 2, 2, 5, 5)

RefShape3 == Shape(3, 8, 8, 0, 3)

\* two frames, one child each, read at 0 and at 2
FramesTwo == Frames(<<0, 0, 2, 2>>, <<1, 2, 1, 3>>, <<>>)

\* two frames of the same two children, read at 0 and at 2
FramesTwoPairs == Frames(<<0, 0, 2, 0>>, <<2, 2, 3>>, <<>>)

\* three frames (with action info): one child read at 0, none, one child read at 1
FramesThree == Frames(<<0, 0, 0, 0, 2, 0, 1, 0, 0>>, <<1, 3, 0>>, <<7>>)

FramesOne == Frames(<<0, 0>>, <<1, 3>>, <<>>)

FramesNone == Frames(<<>>, <<>>, <<>>)

\* the first sprite of the root
RootFirstSprites ==
    { Sprite(1, <<"A">>, payload, frameData) :
        payload \in { Single(2), SingleNoAction(3), SingleFrame(<<2, 3>>), Single(1),
                      FramesTwo, FramesTwoPairs, FramesNone },
        frameData \in { <<2, 0, 2, 1>>, <<0>> } }

\* the second sprite of the root: it may repeat the id or the name of the
\* first, or have no name
RootSecondSprites ==
    { Sprite(idName[1], idName[2], payload, frameData) :
        idName \in { <<1, <<"B">>>>, <<2, <<"A">>>>, <<2, <<"B">>>>, <<2, NoName>> },
        payload \in { SingleNoAction(3), FramesThree, FramesOne, Single(1) },
        frameData \in { <<0, 2, 0>>, <<16>> } }

\* the sprite of the referenced animation
ReferenceSprites ==
    { Sprite(id, <<"C">>, payload, <<2, 0>>) :
        id \in {2, 3}, payload \in { Single(1), SingleNoAction(3), NoPayload } }

RootShapes == { <<>>, <<Shape3>>, <<Shape2, Shape3>> }

\* the root renderer (1), with a transform table, and its one reference (2),
\* which has none
Worlds ==
    { << Renderer(<<s1, s2>>, shapes, TheTable, <<2>>, 0),
         Renderer(<<s3>>, <<RefShape1, RefShape3>>, Null, <<>>, 1) >> :
        s1 \in RootFirstSprites, s2 \in RootSecondSprites,
        s3 \in ReferenceSprites, shapes \in RootShapes }

\* the scale of the root: (index.scale ?? 1) * DEFAULT_SCALE
DEFAULT_SCALE == 2

InitWalk ==
    /\ world \in Worlds
    /\ start \in { loadSprite(world, 1, spriteName) : spriteName \in {<<"A">>, <<"B">>, <<"C">>} }
    /\ start # Null
    /\ frame = 0
    /\ stack = <<>>
    /\ log = <<>>
    /\ nested = {}
    /\ skipped = <<>>
    /\ status = "idle"
    /\ ev = NoEv
    /\ results = <<>>
    /\ ReadIdle
    /\ StaticIdle
    /\ DecodeIdle
    /\ RestIdle

Top == stack[Len(stack)]

\* a call of renderSprite that has not run yet
Call(spriteReference, transform) ==
    [ref |-> spriteReference, transform |-> transform, pc |-> "enter",
     ids |-> <<>>, i |-> 1, pos |-> 0]

PassResult(st, lg) ==
    [frame |-> frame, status |-> st, log |-> lg, nested |-> nested, skipped |-> skipped]

\* the pass ends with an error thrown out of every call
Throw(error) ==
    /\ stack' = <<>>
    /\ status' = error
    /\ results' = Append(results, PassResult(error, log))
    /\ UNCHANGED <<notWalk, world, start, frame, log, nested, skipped>>

\* renderer.renderSprite(sprite, SpriteTransform.scale(scale, scale), frame)
RenderFrame ==
    /\ status # "running"
    /\ Len(results) <= MaxFrame
    /\ frame' = Len(results)
    /\ stack' = <<Call(start, SpriteScale(DEFAULT_SCALE, DEFAULT_SCALE))>>
    /\ log' = <<>>
    /\ nested' = {}
    /\ skipped' = <<>>
    /\ status' = "running"
    /\ ev' = NoEv
    /\ UNCHANGED <<notWalk, world, start, results>>

\* renderSprite, lines 492-517: the reader and the ids of the payload
RenderSpriteEnter ==
    /\ status = "running"
    /\ Top.pc = "enter"
    /\ Len(stack) <= MaxDepth
    /\ Top.ref.sprite.payload.kind # "undefined"
    /\ LET c == spriteChildren(Top.ref.sprite, frame)
       IN  stack' = [stack EXCEPT ![Len(stack)] =
                        [@ EXCEPT !.pc = "loop", !.ids = c.ids, !.i = 1, !.pos = c.pos]]
    /\ nested' = IF Len(stack) > 1 /\ Top.ref.sprite.payload.kind = "Frames"
                 THEN nested \cup {countFrames(Top.ref.sprite)}
                 ELSE nested
    /\ ev' = NoEv
    /\ UNCHANGED <<notWalk, world, start, frame, log, skipped, status, results>>

\* a call stack that takes the call in and never gives it back
RenderSpriteOverflowHangs ==
    /\ status = "running"
    /\ Top.pc = "enter"
    /\ Len(stack) > MaxDepth
    /\ ev' = NoEv
    /\ UNCHANGED <<notWalk, world, start, frame, stack, log, nested, skipped, status, results>>

\* one call too many for the call stack: a RangeError
RenderSpriteOverflow ==
    /\ status = "running"
    /\ Top.pc = "enter"
    /\ Len(stack) > MaxDepth
    /\ ev' = NoEv
    /\ Throw("RangeError")

\* sprite.payload is undefined: reading its kind is a TypeError
RenderSpriteNoPayload ==
    /\ status = "running"
    /\ Top.pc = "enter"
    /\ Len(stack) <= MaxDepth
    /\ Top.ref.sprite.payload.kind = "undefined"
    /\ ev' = NoEv
    /\ Throw("TypeError")

\* renderSprite returns: its loop is over
RenderSpriteReturn ==
    /\ status = "running"
    /\ Top.pc = "loop"
    /\ Top.i > Len(Top.ids)
    /\ stack' = SubSeq(stack, 1, Len(stack) - 1)
    /\ ev' = NoEv
    /\ IF Len(stack) = 1
       THEN /\ status' = "done"
            /\ results' = Append(results, PassResult("done", log))
       ELSE UNCHANGED <<status, results>>
    /\ UNCHANGED <<notWalk, world, start, frame, log, nested, skipped>>

\* the renderById call the loop of the innermost renderSprite makes next
InLoop ==
    /\ status = "running"
    /\ Top.pc = "loop"
    /\ Top.i <= Len(Top.ids)

NextId == Top.ids[Top.i]

TopRead == read(Top.ref.sprite.frameData, tableOf(world, Top.ref.animation), Top.pos)

Event(kind, r, final) ==
    [kind |-> kind, id |-> NextId, tag |-> At(Top.ref.sprite.frameData, Top.pos),
     animation |-> Top.ref.animation, parent |-> Top.transform, transform |-> r.t,
     final |-> final, logLen |-> Len(log), depth |-> Len(stack)]

\* a caller whose reader stays where it was
AdvancedWithoutReader(r) == [stack EXCEPT ![Len(stack)] = [@ EXCEPT !.i = @ + 1]]

\* the caller's frame after the renderById call: its reader has advanced
Advanced(r) == [stack EXCEPT ![Len(stack)] = [@ EXCEPT !.i = @ + 1, !.pos = r.pos]]

\* renderById: the reader has no transform for the opcode
RenderByIdMissing ==
    /\ InLoop
    /\ LET r == TopRead
       IN  /\ missing(r.t)
           /\ ev' = Event("missing", r, Null)
    /\ Throw("MissingTransform")

\* renderById: the id is a sprite of the animation, or of its parent
RenderByIdSprite ==
    /\ InLoop
    /\ LET r == TopRead
           target == resolve(world, Top.ref.animation, NextId)
       IN  /\ ~missing(r.t)
           /\ target.kind \in {"sprite", "parentSprite"}
           /\ ev' = Event(target.kind, r, finalTransform(r.t, Top.transform))
           /\ stack' = Append(Advanced(r),
                              Call(target.sprite, finalTransform(r.t, Top.transform)))
    /\ UNCHANGED <<notWalk, world, start, frame, log, nested, skipped, status, results>>

\* renderById: the id is a shape of the animation, handed to the blit sink
RenderByIdShape ==
    /\ InLoop
    /\ LET r == TopRead
           target == resolve(world, Top.ref.animation, NextId)
       IN  /\ ~missing(r.t)
           /\ target.kind = "shape"
           /\ ev' = Event("shape", r, finalTransform(r.t, Top.transform))
           /\ log' = Append(log, [animation |-> Top.ref.animation, shape |-> target.shape,
                                  transform |-> finalTransform(r.t, Top.transform)])
           /\ stack' = Advanced(r)
    /\ UNCHANGED <<notWalk, world, start, frame, nested, skipped, status, results>>

\* renderById: the id is none of them, and the call returns
RenderByIdUnresolved ==
    /\ InLoop
    /\ LET r == TopRead
           target == resolve(world, Top.ref.animation, NextId)
       IN  /\ ~missing(r.t)
           /\ target.kind = "none"
           /\ ev' = Event("none", r, finalTransform(r.t, Top.transform))
           /\ stack' = Advanced(r)
    /\ skipped' = Append(skipped, NextId)
    /\ UNCHANGED <<notWalk, world, start, frame, log, nested, status, results>>

NextWalk ==
    \/ RenderFrame
    \/ RenderSpriteEnter
    \/ RenderSpriteOverflow
    \/ RenderSpriteNoPayload
    \/ RenderSpriteReturn
    \/ RenderByIdMissing
    \/ RenderByIdSprite
    \/ RenderByIdShape
    \/ RenderByIdUnresolved

SpecWalk == InitWalk /\ [][NextWalk]_vars

(***************************************************************************)
(* C2.  renderById ends the render pass with a MissingTransform error      *)
(* exactly when the opcode it reads is outside 0..15 (the undefined found  *)
(* past the end of the stream included); opcode 0 gives the identity and   *)
(* is no error; and when it throws, no renderSprite call has been made and *)
(* no shape has reached the blit sink for that id.                         *)
(***************************************************************************)
C2_MissingTransformIffBadOpcode ==
    /\ status = "MissingTransform" => ev.kind = "missing"
    /\ ev.kind # "-" =>
        /\ ev.kind = "missing" <=> ev.tag \notin 0..15
        /\ ev.kind = "missing" <=> status = "MissingTransform"
        /\ ev.tag = 0 => ev.kind # "missing" /\ ev.transform = SpriteIdentity
        /\ ev.kind = "missing" =>
            /\ stack = <<>>
            /\ Len(log) = ev.logLen
            /\ results[Len(results)].status = "MissingTransform"
            /\ results[Len(results)].log = log

\* an unrecognised opcode ended a pass inside a nested sprite
C2_Witness ==
    /\ ev.kind = "missing"
    /\ ev.tag = 16
    /\ ev.depth >= 2
    /\ status = "MissingTransform"

(***************************************************************************)
(* C3.  renderById resolves the id in the order: a sprite of the current   *)
(* animation, a sprite of the parent animation, a shape of the current     *)
(* animation.  It acts on the first that exists and on nothing else: one   *)
(* renderSprite call on a sprite of that animation, or one call of the     *)
(* blit sink with that shape; and the transform it passes on is            *)
(* child.combine(parent), the transform read from the stream on the left.  *)
(***************************************************************************)
HasWithId(arr, id) == \E i \in 1..Len(arr) : arr[i].id = id

C3_ResolvesInPrecedence ==
    ev.kind \notin {"-", "missing"} =>
        LET a == ev.animation
            p == world[a].parent
            called == Len(stack) = ev.depth + 1 /\ Top.pc = "enter"
                      /\ Top.transform = ev.final /\ Len(log) = ev.logLen
        IN  /\ ev.final = SpriteTransform(T2Mult(ev.transform.position, ev.parent.position),
                                          ColorCombine(ev.transform.color, ev.parent.color))
            /\ IF HasWithId(world[a].sprites, ev.id)
               THEN ev.kind = "sprite" /\ called /\ Top.ref.animation = a
               ELSE IF p # 0 /\ HasWithId(world[p].sprites, ev.id)
               THEN ev.kind = "parentSprite" /\ called /\ Top.ref.animation = p
               ELSE IF HasWithId(world[a].shapes, ev.id)
               THEN /\ ev.kind = "shape"
                    /\ Len(stack) = ev.depth
                    /\ Len(log) = ev.logLen + 1
                    /\ log[Len(log)].animation = a
                    /\ log[Len(log)].shape.id = ev.id
                    /\ log[Len(log)].shape = world[a].shapes[FirstWithId(world[a].shapes, ev.id)]
                    /\ log[Len(log)].transform = ev.final
               ELSE /\ ev.kind = "none"
                    /\ Len(stack) = ev.depth
                    /\ Len(log) = ev.logLen

\* an id that is a sprite of the parent and a shape of the current animation
\* went to the parent's sprite, under a transform that is no identity
C3_Witness ==
    /\ ev.kind = "parentSprite"
    /\ HasWithId(world[ev.animation].shapes, ev.id)
    /\ ev.transform # SpriteIdentity
    /\ Len(stack) = ev.depth + 1

(***************************************************************************)
(* C4.  When renderById is given an id that is no sprite of the current    *)
(* animation, of its parent or of a sub-reference and no shape of the      *)
(* current animation, the render pass ends with an UnresolvedId error: no  *)
(* pass ends otherwise having skipped an id.                               *)
(***************************************************************************)
C4_UnresolvedIdEndsThePass ==
    \A i \in 1..Len(results) :
        results[i].skipped # <<>> => results[i].status = "UnresolvedId"

(***************************************************************************)
(* C5.  For a Frames sprite of frame count F, the passes at frame k and at *)
(* frame k mod F make the same calls of the blit sink, in the same order.  *)
(* As claimed, for every k and whatever Frames sprites are nested:         *)
(***************************************************************************)
StartFrameCount == countFrames(start.sprite)

WrapsAt(i, j) ==
    /\ start.sprite.payload.kind = "Frames"
    /\ StartFrameCount >= 1
    /\ results[j].frame = results[i].frame % StartFrameCount

C5_FrameWrapsModuloCount ==
    \A i, j \in 1..Len(results) :
        WrapsAt(i, j) => results[i].log = results[j].log

(***************************************************************************)
(* C5, amended.  The same, provided every Frames sprite the pass at frame  *)
(* k enters below the first has a frame count that divides F: a nested     *)
(* sprite takes the frame k modulo its own frame count, not k mod F.       *)
(***************************************************************************)
NestedCountsDivide(i) ==
    \A c \in results[i].nested : c >= 1 /\ StartFrameCount % c = 0

C5_FrameWrapsWhenNestedCountsDivide ==
    \A i, j \in 1..Len(results) :
        WrapsAt(i, j) /\ NestedCountsDivide(i) => results[i].log = results[j].log

\* a pass at a frame k >= F through a nested Frames sprite, which blitted
C5_Witness ==
    \E i, j \in 1..Len(results) :
        /\ WrapsAt(i, j)
        /\ results[i].frame >= StartFrameCount
        /\ results[i].nested # {}
        /\ NestedCountsDivide(i)
        /\ results[i].log # <<>>
        /\ results[i].log = results[j].log

(***************************************************************************)
(* AnimationRenderer.findStaticSprite (render.ts 568-576, 654-675).  A     *)
(* pattern is the pieces of text it looks for, in a row, and whether it    *)
(* ends in $.                                                              *)
(***************************************************************************)
Pattern(pieces, anchored) == [pieces |-> pieces, anchored |-> anchored]

staticSpriteFinder ==
    << Pattern(<<"1_Anim", "Statique", "-Boucle">>, TRUE),
       Pattern(<<"1_Anim", "Static", "-Boucle">>, TRUE),
       Pattern(<<"1_Anim", "Statique">>, TRUE),
       Pattern(<<"1_Anim", "Static">>, TRUE),
       Pattern(<<"1_Anim", "Statique">>, FALSE),
       Pattern(<<"1_Anim", "Static">>, FALSE),
       Pattern(<<"1_Anim", "Marche">>, FALSE) >>

\* the pattern occurs in the name from its at-th piece on
OccursAt(pattern, name, at) ==
    /\ at + Len(pattern.pieces) - 1 <= Len(name)
    /\ \A k \in 1..Len(pattern.pieces) : name[at + k - 1] = pattern.pieces[k]
    /\ pattern.anchored => at + Len(pattern.pieces) - 1 = Len(name)

\* RegExp.prototype.test
RegexTest(pattern, name) == \E at \in 1..Len(name) : OccursAt(pattern, name, at)

\* s.name.name && spriteFinder.test(s.name.name)
NameMatches(pattern, name) == name # NoName /\ name # <<>> /\ RegexTest(pattern, name)

\* Array.prototype.find: the index of the first sprite the pattern matches, or 0
FirstMatching(sprites, pattern) ==
    IF \E i \in 1..Len(sprites) : NameMatches(pattern, sprites[i].name)
    THEN CHOOSE i \in 1..Len(sprites) :
             /\ NameMatches(pattern, sprites[i].name)
             /\ \A j \in 1..(i - 1) : ~NameMatches(pattern, sprites[j].name)
    ELSE 0

RECURSIVE findLocalStaticFrom(_, _, _)
\* the loop of findStaticSprite over the patterns, from the index-th on
findLocalStaticFrom(w, a, index) ==
    IF index > Len(staticSpriteFinder) THEN Null
    ELSE LET i == FirstMatching(w[a].sprites, staticSpriteFinder[index])
         IN  IF i # 0
             THEN [loadSprite(w, a, w[a].sprites[i].name) EXCEPT !.reference = -1]
             ELSE findLocalStaticFrom(w, a, index + 1)

\* the local search with the loops exchanged: the first sprite, in sprite
\* order, that any pattern matches
findLocalStaticBySpriteOrder(w, a) ==
    LET hit(i) == \E k \in 1..Len(staticSpriteFinder) :
                      NameMatches(staticSpriteFinder[k], w[a].sprites[i].name)
    IN  IF \E i \in 1..Len(w[a].sprites) : hit(i)
        THEN LET i == CHOOSE i \in 1..Len(w[a].sprites) :
                          hit(i) /\ \A j \in 1..(i - 1) : ~hit(j)
             IN  [loadSprite(w, a, w[a].sprites[i].name) EXCEPT !.reference = -1]
        ELSE Null

findLocalStatic(w, a) == findLocalStaticFrom(w, a, 1)

RECURSIVE findStaticSprite(_, _)
RECURSIVE findStaticInReferences(_, _, _)
findStaticSprite(w, a) ==
    LET local == findLocalStatic(w, a)
    IN  IF local # Null THEN local
        ELSE findStaticInReferences(w, a, 1)

\* the loop of findStaticSprite over this.references; the index it reports
\* counts from 0
findStaticInReferences(w, a, index) ==
    IF index > Len(w[a].references) THEN Null
    ELSE LET reference == w[a].references[index]
             sprite == findStaticSprite(w, reference)
         IN  IF sprite # Null
             THEN [loadSprite(w, reference, sprite.name) EXCEPT !.reference = index - 1]
             ELSE findStaticInReferences(w, a, index + 1)

(***************************************************************************)
(* findStaticSprite on its own: renderer trees of a root (1), its          *)
(* references (2, 3) and a reference (4) of the first of them.             *)
(***************************************************************************)
\* the root has up to MaxLocal sprites
MaxLocal == 2

StaticNames ==
    { <<"X_", "1_Anim", "Statique", "-Boucle">>,
      <<"1_Anim", "Static", "-Boucle">>,
      <<"1_Anim", "Statique">>,
      <<"X_", "1_Anim", "Static">>,
      <<"1_Anim", "Statique", "_2">>,
      <<"1_Anim", "Static", "-Boucle", "_2">>,
      <<"X_", "1_Anim", "Marche">>,
      <<"X_">>,
      <<>>,
      NoName }

\* the sprites of a renderer, given their names
Named(names) == [i \in 1..Len(names) |-> Sprite(i, names[i], NoPayload, <<>>)]

SeqsUpTo(S, n) == UNION { [1..k -> S] : k \in 0..n }

StaticWorlds ==
    { << Renderer(Named(root), <<>>, Null, <<2, 3>>, 0),
         Renderer(Named(first), <<>>, Null, <<4>>, 1),
         Renderer(Named(second), <<>>, Null, <<>>, 1),
         Renderer(Named(below), <<>>, Null, <<>>, 2) >> :
        root \in SeqsUpTo(StaticNames, MaxLocal),
        first \in SeqsUpTo({<<"1_Anim", "Static", "_2">>, <<"X_">>}, 1),
        second \in SeqsUpTo({<<"1_Anim", "Statique", "-Boucle">>, <<"X_", "1_Anim", "Marche">>}, 1),
        below \in { <<>>, << <<"1_Anim", "Marche">>, <<"1_Anim", "Statique">> >> } }

InitStatic ==
    /\ world \in StaticWorlds
    /\ PassIdle
    /\ ReadIdle
    /\ DecodeIdle
    /\ RestIdle
    /\ found = NotCalled

\* animation.findStaticSprite(), on any renderer of the tree
FindStaticSprite ==
    /\ \E a \in 1..Len(world) :
           /\ found.animation # a
           /\ found' = [called |-> TRUE, animation |-> a,
                        result |-> findStaticSprite(world, a)]
    /\ UNCHANGED notStatic

NextStatic == FindStaticSprite

SpecStatic == InitStatic /\ [][NextStatic]_vars

(***************************************************************************)
(* C6.  findStaticSprite returns a sprite matching the earliest pattern of *)
(* the list that any local sprite name matches, whatever the order of the  *)
(* sprites; only if no local sprite matches any pattern does it search the *)
(* child renderers, in index order, returning the match of the first child *)
(* that has one with reference set to that child's index; and it returns   *)
(* nothing only if no sprite of the whole renderer tree matches a pattern. *)
(***************************************************************************)
LocalMatch(w, a, k) ==
    \E i \in 1..Len(w[a].sprites) : NameMatches(staticSpriteFinder[k], w[a].sprites[i].name)

HasLocalMatch(w, a) == \E k \in 1..Len(staticSpriteFinder) : LocalMatch(w, a, k)

\* the earliest pattern a local sprite matches
EarliestLocal(w, a) ==
    CHOOSE k \in 1..Len(staticSpriteFinder) :
        LocalMatch(w, a, k) /\ \A j \in 1..(k - 1) : ~LocalMatch(w, a, j)

RECURSIVE Subtree(_, _)
\* a renderer and the renderers below it
Subtree(w, a) ==
    {a} \cup UNION { Subtree(w, w[a].references[i]) : i \in 1..Len(w[a].references) }

HasMatchBelow(w, a) == \E b \in Subtree(w, a) : HasLocalMatch(w, b)

IsSpriteOf(w, a, sprite) == \E i \in 1..Len(w[a].sprites) : w[a].sprites[i] = sprite

\* r is a local match of renderer a on the earliest pattern matched there
IsEarliestLocalMatch(w, a, r) ==
    /\ r # Null
    /\ r.animation = a
    /\ IsSpriteOf(w, a, r.sprite)
    /\ r.name = r.sprite.name
    /\ NameMatches(staticSpriteFinder[EarliestLocal(w, a)], r.sprite.name)

Ok(v, pos) == [ok |-> TRUE, v |-> v, pos |-> pos]

Fail(pos) == [ok |-> FALSE, v |-> Null, pos |-> pos]

\* the types BinaryReader.read tells apart
Base(name) == [kind |-> "base", name |-> name]

ArrayOf(size, value) == [kind |-> "array", size |-> size, value |-> value]

MapOf(key, value) == [kind |-> "map", key |-> key, value |-> value]

Fn(name) == [kind |-> "function", name |-> name]

Width(name) ==
    CASE name \in {"u8", "i8"} -> 1
      [] name \in {"u16", "i16"} -> 2
      [] name \in {"u32", "i32", "f32"} -> 4
      [] name = "f64" -> 8

RECURSIVE Unsigned(_, _, _)
\* the unsigned number in the w bytes from pos on
Unsigned(data, pos, w) ==
    IF w = 0 THEN 0 ELSE At(data, pos) + 256 * Unsigned(data, pos + 1, w - 1)

\* the two's complement number in the w bytes from pos on
Signed(data, pos, w) ==
    IF At(data, pos + w - 1) >= 128
    THEN Unsigned(data, pos, w - 1) + (At(data, pos + w - 1) - 256) * 2 ^ (8 * (w - 1))
    ELSE Unsigned(data, pos, w)

\* readUint8, readUint16, readUint32, readInt8, readInt16, readInt32,
\* readFloat32, readFloat64
readNumber(data, pos, name) ==
    IF pos + Width(name) > Len(data) THEN Fail(pos)
    ELSE Ok(CASE name \in {"u8", "u16", "u32"} -> Unsigned(data, pos, Width(name))
              [] name \in {"i8", "i16", "i32"} -> Signed(data, pos, Width(name))
              [] OTHER -> [k \in 1..Width(name) |-> At(data, pos + k - 1)],
            pos + Width(name))

RECURSIVE readStringFrom(_, _, _)
\* a loop that leaves the reader at the terminator
readStringFromUpToTerminator(data, pos, result) ==
    IF pos >= Len(data) THEN Fail(pos)
    ELSE IF At(data, pos) = 0 THEN Ok(result, pos)
    ELSE readStringFrom(data, pos + 1, Append(result, At(data, pos)))

\* the loop of readString, result holding the characters read so far
readStringFrom(data, pos, result) ==
    IF pos >= Len(data) THEN Fail(pos)
    ELSE IF At(data, pos) = 0 THEN Ok(result, pos + 1)
    ELSE readStringFrom(data, pos + 1, Append(result, At(data, pos)))

readString(data, pos) == readStringFrom(data, pos, <<>>)

\* map[keyValue] = value
MapSet(map, key, value) ==
    IF \E i \in 1..Len(map) : map[i][1] = key
    THEN [i \in 1..Len(map) |-> IF map[i][1] = key THEN <<key, value>> ELSE map[i]]
    ELSE Append(map, <<key, value>>)

\* what follows a read: nothing if it failed, else body(r) for its result r
Then(r, body(_)) == CHOOSE out \in {IF x.ok THEN body(x) ELSE x : x \in {r}} : TRUE

\* a value that may be null: no value, or one
Absent == <<>>

Present(v) == <<v>>

\* readIf(condition, type) as a property of an object literal
Maybe(condition, type) == [kind |-> "if", condition |-> condition, type |-> type]

RECURSIVE readValue(_, _, _)
RECURSIVE readArrayFrom(_, _, _, _, _)
RECURSIVE readMapFrom(_, _, _, _, _, _)
RECURSIVE readFields(_, _, _, _)
RECURSIVE call(_, _, _)

\* the loop of readArray: size values more after those of array
readArrayFrom(data, pos, valueType, size, array) ==
    IF size <= 0 THEN Ok(array, pos)
    ELSE Then(readValue(data, pos, valueType),
              LAMBDA value : readArrayFrom(data, value.pos, valueType, size - 1,
                                           Append(array, value.v)))

readArray(data, pos, sizeType, valueType) ==
    Then(readValue(data, pos, Base(sizeType)),
         LAMBDA size : readArrayFrom(data, size.pos, valueType, size.v, <<>>))

\* the loop of readMap
readMapFrom(data, pos, keyType, valueType, size, map) ==
    IF size <= 0 THEN Ok(map, pos)
    ELSE Then(readValue(data, pos, Base(keyType)), LAMBDA keyValue :
         Then(readValue(data, keyValue.pos, valueType), LAMBDA value :
              readMapFrom(data, value.pos, keyType, valueType, size - 1,
                          MapSet(map, keyValue.v, value.v))))

readMap(data, pos, keyType, valueType) ==
    Then(readValue(data, pos, Base("u32")),
         LAMBDA size : readMapFrom(data, size.pos, keyType, valueType, size.v, <<>>))

\* BinaryReader.read
readValue(data, pos, type) ==
    CASE type.kind = "array" -> readArray(data, pos, type.size, type.value)
      [] type.kind = "map" -> readMap(data, pos, type.key, type.value)
      [] type.kind = "function" -> call(type.name, data, pos)
      [] type.kind = "base" /\ type.name # "string" -> readNumber(data, pos, type.name)
      [] OTHER -> readString(data, pos)

\* BinaryReader.readIf
readIf(condition, data, pos, type) ==
    IF condition
    THEN Then(readValue(data, pos, type), LAMBDA value : Ok(Present(value.v), value.pos))
    ELSE Ok(Absent, pos)

\* reads in a row, as the properties of an object literal are evaluated: the
\* values read, in the order of the types
readFields(data, pos, types, values) ==
    IF types = <<>> THEN Ok(values, pos)
    ELSE Then(IF Head(types).kind = "if"
              THEN readIf(Head(types).condition, data, pos, Head(types).type)
              ELSE readValue(data, pos, Head(types)),
              LAMBDA value : readFields(data, value.pos, Tail(types),
                                        Append(values, value.v)))

\* (flagsValue & mask) == mask, for a mask of one bit
HasFlag(flagsValue, mask) == (flagsValue \div mask) % 2 = 1

(***************************************************************************)
(* readAnimation (parser.ts): the readers of the records of the file.      *)
(***************************************************************************)
\* decodedFlags of the index block
IndexFlags(flagsValue) ==
    [hasScale |-> HasFlag(flagsValue, 1),
     hasExtension |-> HasFlag(flagsValue, 2),
     hasHidingPart |-> HasFlag(flagsValue, 4),
     hasRenderRadius |-> HasFlag(flagsValue, 8),
     useFlip |-> HasFlag(flagsValue, 16),
     usePerfectHitTest |-> HasFlag(flagsValue, 32),
     canHidePart |-> HasFlag(flagsValue, 64),
     isExtended |-> HasFlag(flagsValue, 128)]

\* the index block (lines 19-83)
readIndex(data, pos) ==
    Then(readNumber(data, pos, "u8"), LAMBDA flagsValue :
    Then(readFields(data, flagsValue.pos,
             << Maybe(IndexFlags(flagsValue.v).hasScale, Base("f32")),
                Maybe(IndexFlags(flagsValue.v).hasRenderRadius, Base("f32")),
                Maybe(IndexFlags(flagsValue.v).hasExtension, ArrayOf("u16", Base("string"))),
                Maybe(IndexFlags(flagsValue.v).hasHidingPart, ArrayOf("u8", Fn("partHiddenBy"))),
                Maybe(IndexFlags(flagsValue.v).canHidePart, ArrayOf("u8", Fn("partToBeHidden"))),
                Maybe(IndexFlags(flagsValue.v).isExtended, Fn("extension")),
                ArrayOf("u16", Fn("animationFile")) >>, <<>>), LAMBDA r :
         Ok([flags |-> flagsValue.v, decodedFlags |-> IndexFlags(flagsValue.v),
             scale |-> r.v[1], render_radius |-> r.v[2], file_names |-> r.v[3],
             parts_hidden_by |-> r.v[4], parts_to_be_hidden |-> r.v[5],
             extension |-> r.v[6], animation_files |-> r.v[7]], r.pos)))

readPartHiddenBy(data, pos) ==
    Then(readFields(data, pos, <<Base("i32"), Base("i32")>>, <<>>), LAMBDA r :
         Ok([crc_key |-> r.v[1], crc_to_hide |-> r.v[2]], r.pos))

readPartToBeHidden(data, pos) ==
    Then(readFields(data, pos, <<Base("string"), Base("i32")>>, <<>>), LAMBDA r :
         Ok([item_name |-> r.v[1], crc_key |-> r.v[2]], r.pos))

readHighlightColor(data, pos) ==
    Then(readFields(data, pos, <<Base("f32"), Base("f32"), Base("f32")>>, <<>>), LAMBDA r :
         Ok([red |-> r.v[1], green |-> r.v[2], blue |-> r.v[3], alpha |-> 1], r.pos))

\* heights[key] = heights[key] + 1, for every key
PlusOne(heights) == [i \in 1..Len(heights) |-> <<heights[i][1], heights[i][2] + 1>>]

readExtension(data, pos) ==
    Then(readNumber(data, pos, "i32"), LAMBDA flags :
    Then(readIf(HasFlag(flags.v, 1), data, flags.pos, MapOf("i32", Base("i8"))),
         LAMBDA heights :
    Then(readIf(HasFlag(flags.v, 2), data, heights.pos, Fn("highlightColor")),
         LAMBDA color :
         Ok([heights |-> IF heights.v # Absent THEN Present(PlusOne(heights.v[1]))
                         ELSE Absent,
             highlight_color |-> color.v], color.pos))))

readAnimationFile(data, pos) ==
    Then(readFields(data, pos, <<Base("string"), Base("i32"), Base("i16")>>, <<>>),
         LAMBDA r : Ok([name |-> r.v[1], crc |-> r.v[2], file_index |-> r.v[3]], r.pos))

\* the texture, read when texture_count is 1 (lines 87-90)
readTexture(data, pos) ==
    Then(readFields(data, pos, <<Base("string"), Base("i32")>>, <<>>), LAMBDA r :
         Ok([name |-> r.v[1], crc |-> r.v[2]], r.pos))

\* num / den: the quotient, as a fraction
Quotient(num, den) == [num |-> num, den |-> den]

\* the divisor of the texture coordinates
CoordinateScale == 65535

\* a texture coordinate read as a signed number
readCoordinateSigned(data, pos) ==
    Then(readNumber(data, pos, "i16"), LAMBDA r :
         Ok(Quotient(r.v, CoordinateScale), r.pos))

\* reader.read('u16') / 65535
readCoordinate(data, pos) ==
    Then(readNumber(data, pos, "u16"), LAMBDA r :
         Ok(Quotient(r.v, CoordinateScale), r.pos))

\* a shape (lines 94-105)
readShape(data, pos) ==
    Then(readFields(data, pos,
             << Base("i16"), Base("i16"), Fn("coordinate"), Fn("coordinate"),
                Fn("coordinate"), Fn("coordinate"), Base("u16"), Base("u16"),
                Base("f32"), Base("f32") >>, <<>>), LAMBDA r :
         Ok([id |-> r.v[1], texture_index |-> r.v[2], top |-> r.v[3], left |-> r.v[4],
             bottom |-> r.v[5], right |-> r.v[6], width |-> r.v[7], height |-> r.v[8],
             offset_x |-> r.v[9], offset_y |-> r.v[10]], r.pos))

\* an import (lines 258-262)
readImport(data, pos) ==
    Then(readFields(data, pos, <<Base("i16"), Base("string"), Base("i32")>>, <<>>),
         LAMBDA r : Ok([id |-> r.v[1], name |-> r.v[2], file_index |-> r.v[3]], r.pos))

\* the text "#optimized", as character codes
Optimized == <<35, 111, 112, 116, 105, 109, 105, 122, 101, 100>>

RECURSIVE readWhileBelow(_, _, _, _, _, _, _)
\* for (index; index < num / den; index++) array.push(reader.read(type)),
\* the quotient being the exact one
readWhileBelow(data, pos, type, index, num, den, array) ==
    IF index * den >= num THEN Ok(array, pos)
    ELSE Then(readValue(data, pos, Base(type)),
              LAMBDA value : readWhileBelow(data, value.pos, type, index + 1, num, den,
                                            Append(array, value.v)))

RECURSIVE readPairsWhileBelow(_, _, _, _, _, _, _)
\* the loop of GoToIfPrevious: a previous name then a next name each time round
readPairsWhileBelow(data, pos, index, num, den, previous, next) ==
    IF index * den >= num THEN Ok([previous |-> previous, next |-> next], pos)
    ELSE Then(readFields(data, pos, <<Base("string"), Base("string")>>, <<>>),
              LAMBDA r : readPairsWhileBelow(data, r.pos, index + 1, num, den,
                                             Append(previous, r.v[1]),
                                             Append(next, r.v[2])))

\* GoToRandom (lines 126-145), after the id and params
readGoToRandom(data, pos, params) ==
    Then(readString(data, pos), LAMBDA first :
         IF first.v = Optimized
         THEN Then(readWhileBelow(data, first.pos, "string", 0, params - 1, 2, <<>>),
                   LAMBDA names :
              Then(readWhileBelow(data, names.pos, "u8", 0, params - 1, 2, <<>>),
                   LAMBDA percents :
                   Ok([kind |-> "GoToRandom", names |-> names.v,
                       percents |-> percents.v], percents.pos)))
         ELSE Then(readWhileBelow(data, first.pos, "string", 0, params - 1, 1, <<>>),
                   LAMBDA names : Ok([kind |-> "GoToRandom", names |-> names.v],
                                     names.pos)))

\* GoToIfPrevious (lines 152-165), after the id and params
readGoToIfPrevious(data, pos, params) ==
    Then(readPairsWhileBelow(data, pos, 0, params - 1, 2, <<>>, <<>>), LAMBDA pairs :
    Then(readIf(params % 2 = 1, data, pairs.pos, Base("string")), LAMBDA default :
         Ok([kind |-> "GoToIfPrevious", previous |-> pairs.v.previous,
             next |-> pairs.v.next, default |-> default.v], default.pos)))

\* AddParticle (lines 166-177), after the id and params
readAddParticle(data, pos, params) ==
    Then(readFields(data, pos,
             << Base("i32"), Maybe(params > 1, Base("i16")),
                Maybe(params > 2, Base("i16")), Maybe(params > 3, Base("i16")) >>, <<>>),
         LAMBDA r : Ok([kind |-> "AddParticle", particleId |-> r.v[1],
                        offsetX |-> r.v[2], offsetY |-> r.v[3], offsetZ |-> r.v[4]],
                       r.pos))

\* what readAction reads after the id and params
readActionBody(data, pos, id, params) ==
    CASE id = 1 -> Then(readFields(data, pos,
                            <<Base("string"), Maybe(params = 2, Base("u8"))>>, <<>>),
                        LAMBDA r : Ok([kind |-> "GoTo", name |-> r.v[1],
                                       percent |-> r.v[2]], r.pos))
      [] id = 2 -> Ok([kind |-> "GoToStatic"], pos)
      [] id = 3 -> Then(readString(data, pos),
                        LAMBDA name : Ok([kind |-> "RunScript", name |-> name.v],
                                         name.pos))
      [] id = 4 -> readGoToRandom(data, pos, params)
      [] id = 5 -> Ok([kind |-> "Hit"], pos)
      [] id = 6 -> Ok([kind |-> "Delete"], pos)
      [] id = 7 -> Ok([kind |-> "End"], pos)
      [] id = 8 -> readGoToIfPrevious(data, pos, params)
      [] id = 9 -> readAddParticle(data, pos, params)
      [] OTHER -> Then(readNumber(data, pos, "i8"),
                       LAMBDA radius : Ok([kind |-> "SetRadius", radius |-> radius.v],
                                          radius.pos))

\* an action of the transform table (lines 119-182)
readAction(data, pos) ==
    Then(readFields(data, pos, <<Base("u8"), Base("u8")>>, <<>>),
         LAMBDA head : readActionBody(data, head.pos, head.v[1], head.v[2]))

\* the transform block (lines 107-184)
readTransform(data, pos) ==
    Then(readFields(data, pos,
             << ArrayOf("u32", Base("f32")), ArrayOf("u32", Base("f32")),
                ArrayOf("u32", Base("f32")), ArrayOf("u32", Fn("action")) >>, <<>>),
         LAMBDA r : Ok([colors |-> r.v[1], rotations |-> r.v[2],
                        translations |-> r.v[3], actions |-> r.v[4]], r.pos))

\* what the payload of a sprite reads, by its tag
PayloadTypes(tag) ==
    CASE tag = 1 -> <<Base("i16"), ArrayOf("u16", Base("i16"))>>
      [] tag = 2 -> <<Base("i16")>>
      [] tag = 3 -> <<ArrayOf("u16", Base("i16")), ArrayOf("u16", Base("i16"))>>
      [] tag = 4 -> <<ArrayOf("u16", Base("i32")), ArrayOf("u16", Base("i16")),
                      ArrayOf("u16", Base("i16"))>>
      [] OTHER -> <<>>

\* the payload of a sprite (lines 198-225); undefined for a tag outside 1..4
readPayload(data, pos, tag) ==
    Then(readFields(data, pos, PayloadTypes(tag), <<>>), LAMBDA r :
         Ok(CASE tag = 1 -> [kind |-> "Single", spriteId |-> r.v[1],
                             actionInfo |-> r.v[2]]
              [] tag = 2 -> [kind |-> "SingleNoAction", spriteId |-> r.v[1]]
              [] tag = 3 -> [kind |-> "SingleFrame", spriteIds |-> r.v[1],
                             actionInfo |-> r.v[2]]
              [] tag = 4 -> [kind |-> "Frames", framePos |-> r.v[1],
                             spriteInfo |-> r.v[2], actionInfo |-> r.v[3]]
              [] OTHER -> [kind |-> "undefined"], r.pos))

\* the frame data of a sprite (lines 226-245)
readFrameData(data, pos) ==
    Then(readNumber(data, pos, "u8"), LAMBDA tag :
    Then(readArray(data, tag.pos, "u32",
                   Base(CASE tag.v = 1 -> "u8" [] tag.v = 2 -> "u16" [] OTHER -> "u32")),
         LAMBDA buffer :
         Ok([kind |-> CASE tag.v = 1 -> "Bytes" [] tag.v = 2 -> "Shorts" [] OTHER -> "Ints",
             buffer |-> buffer.v], buffer.pos)))

\* a sprite (lines 187-254)
readSprite(data, pos) ==
    Then(readFields(data, pos, <<Base("i8"), Base("i16"), Base("u8")>>, <<>>),
         LAMBDA head :
    Then(readFields(data, head.pos,
             <<Maybe(HasFlag(head.v[3], 64), Base("string")), Base("i32"), Base("i32")>>,
             <<>>), LAMBDA name :
    Then(readPayload(data, name.pos, head.v[1]), LAMBDA payload :
    Then(readFrameData(data, payload.pos), LAMBDA frameData :
         Ok([id |-> head.v[2],
             name |-> [name |-> name.v[1], nameCrc |-> name.v[2],
                       baseNameCrc |-> name.v[3]],
             flags |-> head.v[3], decodedFlags |-> [hasName |-> HasFlag(head.v[3], 64)],
             frameData |-> frameData.v, payload |-> payload.v], frameData.pos)))))

\* type(this): the callbacks handed to BinaryReader.read
call(name, data, pos) ==
    CASE name = "index" -> readIndex(data, pos)
      [] name = "partHiddenBy" -> readPartHiddenBy(data, pos)
      [] name = "partToBeHidden" -> readPartToBeHidden(data, pos)
      [] name = "extension" -> readExtension(data, pos)
      [] name = "highlightColor" -> readHighlightColor(data, pos)
      [] name = "animationFile" -> readAnimationFile(data, pos)
      [] name = "texture" -> readTexture(data, pos)
      [] name = "coordinate" -> readCoordinate(data, pos)
      [] name = "shape" -> readShape(data, pos)
      [] name = "transform" -> readTransform(data, pos)
      [] name = "action" -> readAction(data, pos)
      [] name = "sprite" -> readSprite(data, pos)
      [] name = "import" -> readImport(data, pos)

(***************************************************************************)
(* The reader of one action on its own: buffers that start at an action,   *)
(* its id and params bytes followed by zero-terminated strings.            *)
(***************************************************************************)
\* params is a byte; the actions tried have params up to MaxParams
MaxParams == 32

ActionIds == 1..10

\* the text "Intro"
Intro == <<73, 110, 116, 114, 111>>

\* names 2 to n, "A" and "B" in turn, each with its terminator
NameBytes(n) ==
    [i \in 1..(2 * (n - 1)) |-> IF i % 2 = 0 THEN 0 ELSE 65 + ((i \div 2) % 2)]

ActionBuffer(id, params, first, strings) ==
    <<id, params>> \o first \o <<0>> \o NameBytes(strings)

InitAction ==
    /\ \E id \in ActionIds, params \in 0..MaxParams, first \in {Optimized, Intro} :
       \E strings \in {1, params + 1} :
           /\ input = ActionBuffer(id, params, first, strings)
           /\ file = <<[name |-> "action", bytes |-> input]>>
    /\ cursor = 0
    /\ fields = <<>>
    /\ phase = "reading"
    /\ ReadIdle
    /\ WalkIdle
    /\ StaticIdle
    /\ RestIdle

\* what one read leaves behind: the field and the position after it, or the
\* failure of the whole decode
Field(name, r) ==
    IF r.ok
    THEN /\ fields' = Append(fields, [name |-> name, value |-> r.v,
                                      from |-> cursor, to |-> r.pos])
         /\ cursor' = r.pos
         /\ phase' = IF name \in {"action", "imports"} THEN "done" ELSE "reading"
    ELSE /\ fields' = fields
         /\ cursor' = r.pos
         /\ phase' = "fatal"

\* the callback of the actions array, called on the reader
ReadAction ==
    /\ phase = "reading"
    /\ file[1].name = "action"
    /\ Field("action", readAction(input, cursor))
    /\ UNCHANGED <<file, input, notDecode>>

NextAction == ReadAction

SpecAction == InitAction /\ [][NextAction]_vars

\* the action read, once it has been
TheAction == fields[1].value

ActionId == input[1]

ActionParams == input[2]

ActionRead == phase = "done" /\ fields[1].name = "action"

\* the number of zero bytes from position from up to position to: the
\* strings consumed, where only strings are read
Terminators(from, to) == Cardinality({i \in from..(to - 1) : At(input, i) = 0})

\* the string that starts at position pos of the buffer
StringAt(pos) == readString(input, pos).v

(***************************************************************************)
(* C7.  A GoToRandom action (id 4) whose leading string is not             *)
(* "#optimized" decodes to count = params-1 names and no percents, the     *)
(* leading string being the first of the names, and count strings are      *)
(* consumed in all.                                                        *)
(***************************************************************************)
C7_GoToRandomKeepsLeadingString ==
    (ActionRead /\ ActionId = 4 /\ StringAt(2) # Optimized /\ ActionParams >= 2) =>
        LET count == ActionParams - 1
        IN  /\ TheAction.kind = "GoToRandom"
            /\ "percents" \notin DOMAIN TheAction
            /\ Len(TheAction.names) = count
            /\ TheAction.names[1] = StringAt(2)
            /\ Terminators(fields[1].from + 2, fields[1].to) = count

(***************************************************************************)
(* C8.  A GoToIfPrevious action (id 8) decodes, for every params in        *)
(* 0..255, to count = (params-1)/2 previous names and count next names and *)
(* a default that is present iff params is odd, and 2*count strings are    *)
(* consumed, plus one if params is odd.                                    *)
(***************************************************************************)
\* (params-1)/2 in whole numbers
PairCount(params) == IF params = 0 THEN 0 ELSE (params - 1) \div 2

C8_GoToIfPreviousReadsCountPairs ==
    (ActionRead /\ ActionId = 8) =>
        LET count == PairCount(ActionParams)
        IN  /\ TheAction.kind = "GoToIfPrevious"
            /\ Len(TheAction.previous) = count
            /\ Len(TheAction.next) = count
            /\ (TheAction.default # Absent) <=> (ActionParams % 2 = 1)
            /\ Terminators(fields[1].from + 2, fields[1].to)
                   = 2 * count + (IF ActionParams % 2 = 1 THEN 1 ELSE 0)

(***************************************************************************)
(* readAnimation (parser.ts lines 4-265) on whole files.  A file is        *)
(* written section by section; the decoder does not see the sections, only *)
(* the bytes.                                                              *)
(***************************************************************************)
\* a file has up to MaxShapes shapes
MaxShapes == 2

\* the w bytes of the number n, least significant first
LE(n, w) == [k \in 1..w |-> (n \div (256 ^ (k - 1))) % 256]

Section(name, bytes) == [name |-> name, bytes |-> bytes]

RECURSIVE Concat(_)
\* the bytes of a sequence of sections
Concat(sections) ==
    IF sections = <<>> THEN <<>> ELSE Head(sections).bytes \o Concat(Tail(sections))

\* version & 0x2, version & 0x8 and version & 0x10
useLocalIndex(version) == HasFlag(version, 2)

isOptimized(version) == HasFlag(version, 8)

\* the transform gated on the bit below its own
useTransformIndexAsOptimized(version) == HasFlag(version, 8)

useTransformIndex(version) == HasFlag(version, 16)

\* texture_count === 1
hasTexture(texture_count) == texture_count = 1

Versions == {0, 2, 13, 16, 18, 239, 247, 255}

\* index blocks: no flag; scale and render radius; file names and an
\* animation file; an extension with heights and a highlight colour; parts
\* hidden and to be hidden
IndexBlocks ==
    { <<0>> \o LE(0, 2),
      <<9, 0, 0, 128, 63, 0, 0, 0, 64>> \o LE(0, 2),
      <<2>> \o LE(1, 2) \o <<65, 0>> \o LE(1, 2) \o <<66, 0>> \o LE(7, 4) \o LE(1, 2),
      <<128>> \o LE(3, 4) \o LE(1, 4) \o LE(5, 4) \o <<255>>
              \o <<0, 0, 128, 63, 0, 0, 0, 0, 0, 0, 0, 63>> \o LE(0, 2),
      <<68, 1>> \o LE(3, 4) \o LE(4, 4) \o <<1, 67, 0>> \o LE(5, 4) \o LE(0, 2) }

\* transform blocks: empty tables; a colour, a rotation, a translation and
\* the actions GoTo with a percent, Hit and GoToIfPrevious with a default
TransformBlocks ==
    { LE(0, 4) \o LE(0, 4) \o LE(0, 4) \o LE(0, 4),
      LE(1, 4) \o <<0, 0, 128, 63>> \o LE(1, 4) \o <<0, 0, 0, 64>>
               \o LE(1, 4) \o <<0, 0, 64, 64>>
               \o LE(3, 4) \o <<1, 2, 65, 0, 50>> \o <<5, 0>> \o <<8, 1, 66, 0>> }

\* sprite arrays: none; a named SingleNoAction sprite with two bytes of
\* frame data
SpriteArrays ==
    { LE(0, 2),
      LE(1, 2) \o <<2>> \o LE(1, 2) \o <<64, 65, 0>> \o LE(9, 4) \o LE(8, 4)
               \o LE(3, 2) \o <<1>> \o LE(2, 4) \o <<2, 0>> }

ImportArrays == { LE(0, 2), LE(1, 2) \o LE(5, 2) \o <<73, 0>> \o LE(1, 4) }

\* the extents stored for a shape: top, left, bottom, right
Extents ==
    { <<rows[1], left, rows[2], right>> :
        rows \in {<<0, 65535>>, <<65535, 0>>},
        left \in {0, 32768, 65535}, right \in {0, 32768, 65535} }

\* a shape with id 3 on texture 0, 4 by 5 pixels, offsets 0
ShapeBytes(extents) ==
    LE(3, 2) \o LE(0, 2) \o LE(extents[1], 2) \o LE(extents[2], 2) \o LE(extents[3], 2)
             \o LE(extents[4], 2) \o LE(4, 2) \o LE(5, 2) \o LE(0, 4) \o LE(0, 4)

\* the bytes of one shape
ShapeSize == 24

RECURSIVE ShapesBytes(_)
ShapesBytes(list) ==
    IF list = <<>> THEN <<>> ELSE ShapeBytes(Head(list)) \o ShapesBytes(Tail(list))

ShapeArray(list) == LE(Len(list), 2) \o ShapesBytes(list)

\* the sections of a file, in file order: the index and the transform are
\* there iff the version says so, the texture iff texture_count is 1
File(version, unused, index, texture_count, shapes, transform, sprites, imports) ==
    << Section("version", <<version>>),
       Section("unused", unused),
       Section("frame_rate", <<30>>),
       Section("index", IF useLocalIndex(version) THEN index ELSE <<>>),
       Section("texture_count", LE(texture_count, 2)),
       Section("texture", IF hasTexture(texture_count)
                          THEN <<84, 0>> \o LE(6, 4) ELSE <<>>),
       Section("shapes", ShapeArray(shapes)),
       Section("transform", IF useTransformIndex(version) THEN transform ELSE <<>>),
       Section("sprites", sprites),
       Section("imports", imports) >>

\* files of every layout with no shape or one, and files of one layout with
\* every list of shapes
Files ==
    { File(version, unused, index, texture_count, shapes, transform, sprites, imports) :
        version \in Versions, unused \in {<<0, 0>>, <<255, 255>>},
        index \in IndexBlocks, texture_count \in 0..2,
        shapes \in {<<>>, << <<0, 32768, 65535, 65535>> >>},
        transform \in TransformBlocks, sprites \in SpriteArrays,
        imports \in ImportArrays }
    \cup
    { File(version, <<0, 0>>, <<0>> \o LE(0, 2), 1, shapes,
           LE(0, 4) \o LE(0, 4) \o LE(0, 4) \o LE(0, 4), LE(0, 2), LE(0, 2)) :
        version \in {18}, shapes \in SeqsUpTo(Extents, MaxShapes) }

\* readAnimation(buffer): the buffer is a file, or a file without shapes cut
\* short by a byte
InitDecode ==
    /\ file \in Files
    /\ input \in {Concat(file)} \cup
                 { SubSeq(Concat(file), 1, Len(Concat(file)) - 1) :
                     cut \in {c \in {1} : file[7].bytes = LE(0, 2)} }
    /\ cursor = 0
    /\ fields = <<>>
    /\ phase = "reading"
    /\ ReadIdle
    /\ WalkIdle
    /\ StaticIdle
    /\ RestIdle

\* the object readAnimation returns has k-1 of its properties so far
NextIs(k) == phase = "reading" /\ file[1].name = "version" /\ Len(fields) = k - 1

\* a property of that object, once read
Value(name) == fields[CHOOSE k \in 1..Len(fields) : fields[k].name = name].value

\* const version = reader.read('u8')
ReadVersion ==
    /\ NextIs(1)
    /\ Field("version", readValue(input, cursor, Base("u8")))
    /\ UNCHANGED <<file, input, notDecode>>

\* reader.read('i16'), unused
ReadUnused ==
    /\ NextIs(2)
    /\ Field("unused", readValue(input, cursor, Base("i16")))
    /\ UNCHANGED <<file, input, notDecode>>

ReadFrameRate ==
    /\ NextIs(3)
    /\ Field("frame_rate", readValue(input, cursor, Base("u8")))
    /\ UNCHANGED <<file, input, notDecode>>

ReadIndex ==
    /\ NextIs(4)
    /\ Field("index", readIf(useLocalIndex(Value("version")), input, cursor, Fn("index")))
    /\ UNCHANGED <<file, input, notDecode>>

ReadTextureCount ==
    /\ NextIs(5)
    /\ Field("texture_count", readValue(input, cursor, Base("u16")))
    /\ UNCHANGED <<file, input, notDecode>>

\* texture_count === 1 ? {...} : null
ReadTexture ==
    /\ NextIs(6)
    /\ Field("texture", readIf(hasTexture(Value("texture_count")), input, cursor,
                               Fn("texture")))
    /\ UNCHANGED <<file, input, notDecode>>

ReadShapes ==
    /\ NextIs(7)
    /\ Field("shapes", readValue(input, cursor, ArrayOf("u16", Fn("shape"))))
    /\ UNCHANGED <<file, input, notDecode>>

ReadTransform ==
    /\ NextIs(8)
    /\ Field("transform", readIf(useTransformIndex(Value("version")), input, cursor,
                                 Fn("transform")))
    /\ UNCHANGED <<file, input, notDecode>>

ReadSprites ==
    /\ NextIs(9)
    /\ Field("sprites", readValue(input, cursor, ArrayOf("u16", Fn("sprite"))))
    /\ UNCHANGED <<file, input, notDecode>>

ReadImports ==
    /\ NextIs(10)
    /\ Field("imports", readValue(input, cursor, ArrayOf("u16", Fn("import"))))
    /\ UNCHANGED <<file, input, notDecode>>

NextDecode ==
    \/ ReadVersion
    \/ ReadUnused
    \/ ReadFrameRate
    \/ ReadIndex
    \/ ReadTextureCount
    \/ ReadTexture
    \/ ReadShapes
    \/ ReadTransform
    \/ ReadSprites
    \/ ReadImports

SpecDecode == InitDecode /\ [][NextDecode]_vars

(***************************************************************************)
(* C9.  readAnimation reads the top-level fields in the order version,     *)
(* skipped i16, frame_rate, index, texture_count, texture, shapes,         *)
(* transform, sprites, imports, each from where the one before ended and   *)
(* over exactly the bytes of its section of the file; the index is present *)
(* iff bit 0x2 of the version is set, the transform iff bit 0x10 is, the   *)
(* texture iff texture_count is 1, and an absent section consumes no byte. *)
(***************************************************************************)
FieldOrder ==
    << "version", "unused", "frame_rate", "index", "texture_count", "texture", "shapes",
       "transform", "sprites", "imports" >>

\* where the k-th section of the file starts in the buffer
RECURSIVE SectionStart(_)
SectionStart(k) == IF k = 1 THEN 0 ELSE SectionStart(k - 1) + Len(file[k - 1].bytes)

\* the k-th field read is absent, and no byte was consumed for it
AbsentAt(k) == fields[k].value = Absent /\ fields[k].to = fields[k].from

\* the k-th field read is present
PresentAt(k) == fields[k].value # Absent

C9_TopLevelFieldsInOrder ==
    file[1].name = "version" =>
        /\ \A k \in 1..Len(fields) :
               /\ fields[k].name = FieldOrder[k]
               /\ file[k].name = FieldOrder[k]
               /\ fields[k].from = SectionStart(k)
               /\ fields[k].to = SectionStart(k) + Len(file[k].bytes)
        /\ Len(fields) >= 4 =>
               IF HasFlag(fields[1].value, 2) THEN PresentAt(4) ELSE AbsentAt(4)
        /\ Len(fields) >= 6 =>
               IF fields[5].value = 1 THEN PresentAt(6) ELSE AbsentAt(6)
        /\ Len(fields) >= 8 =>
               IF HasFlag(fields[1].value, 16) THEN PresentAt(8) ELSE AbsentAt(8)
        /\ phase = "done" => Len(fields) = 10 /\ cursor = Len(input)

\* a file whose version has bit 0x8 and not bit 0x10, and two textures, read
\* to its end with an index and neither transform nor texture
C9_Witness ==
    /\ phase = "done"
    /\ Len(fields) = 10
    /\ fields[1].value = 239
    /\ fields[5].value = 2
    /\ PresentAt(4)
    /\ AbsentAt(6)
    /\ AbsentAt(8)
    /\ fields[9].value # <<>>

(***************************************************************************)
(* C10.  Every shape decoded has top, left, bottom and right equal to the  *)
(* stored u16 divided by 65535, hence in [0,1], and has left <= right and  *)
(* top <= bottom.                                                          *)
(***************************************************************************)
\* the shapes decoded, once they are
ShapesRead == Len(fields) >= 7 /\ file[1].name = "version"

\* the u16 stored for the e-th extent (top, left, bottom, right) of the k-th shape
Stored(k, e) == Unsigned(input, fields[7].from + 2 + (k - 1) * ShapeSize + 2 + 2 * e, 2)

\* a <= b, for fractions of positive denominators
LessEq(a, b) ==
    IF a.den = b.den THEN a.num <= b.num ELSE a.num * b.den <= b.num * a.den

InUnit(a) == LessEq(Quotient(0, 1), a) /\ LessEq(a, Quotient(1, 1))

\* the extents of the k-th shape are the stored ones over 65535, in [0,1]
Normalized(k) ==
    LET shape == fields[7].value[k]
        extent == <<shape.top, shape.left, shape.bottom, shape.right>>
    IN  \A e \in 1..4 : extent[e] = Quotient(Stored(k, e), 65535) /\ InUnit(extent[e])

C10_ShapeExtentsNormalizedAndOrdered ==
    ShapesRead =>
        \A k \in 1..Len(fields[7].value) :
            /\ Normalized(k)
            /\ LessEq(fields[7].value[k].left, fields[7].value[k].right)
            /\ LessEq(fields[7].value[k].top, fields[7].value[k].bottom)

\* C10 as amended: every shape decoded has its extents equal to the stored
\* u16 divided by 65535, hence in [0,1], and has left <= right exactly when
\* the stored left is at most the stored right, top <= bottom exactly when the
\* stored top is at most the stored bottom.
C10_ShapeExtentsNormalized ==
    ShapesRead =>
        \A k \in 1..Len(fields[7].value) :
            /\ Normalized(k)
            /\ LessEq(fields[7].value[k].left, fields[7].value[k].right)
                   <=> Stored(k, 2) <= Stored(k, 4)
            /\ LessEq(fields[7].value[k].top, fields[7].value[k].bottom)
                   <=> Stored(k, 1) <= Stored(k, 3)

\* two shapes decoded, the first with left above right and extents past
\* 32767, the second in order
C10_Witness ==
    /\ phase = "done"
    /\ file[1].name = "version"
    /\ Len(fields[7].value) = 2
    /\ Stored(1, 2) = 65535
    /\ Stored(1, 4) = 32768
    /\ fields[7].value[1].left = Quotient(65535, 65535)
    /\ ~LessEq(fields[7].value[1].left, fields[7].value[1].right)
    /\ LessEq(fields[7].value[2].left, fields[7].value[2].right)
    /\ LessEq(fields[7].value[2].top, fields[7].value[2].bottom)

(***************************************************************************)
(* Box2D, render.ts lines 81-130.                                          *)
(***************************************************************************)
Point(x, y) == [x |-> x, y |-> y]

Box2D(min, max) == [min |-> min, max |-> max]

Minus(a, b) == IF a = NaN \/ b = NaN THEN NaN ELSE a - b

\* a > b, which is false when either is NaN
Greater(a, b) == a # NaN /\ b # NaN /\ a > b

\* Math.min and Math.max of two numbers: NaN when either is NaN
Min2(a, b) == IF a = NaN \/ b = NaN THEN NaN ELSE IF a < b THEN a ELSE b

Max2(a, b) == IF a = NaN \/ b = NaN THEN NaN ELSE IF a > b THEN a ELSE b

fromOriginAndSize(x, y, w, h) == Box2D(Point(x, y), Point(Plus(x, w), Plus(y, h)))

isEmpty(box) == ~(Greater(box.max.x, box.min.x) /\ Greater(box.max.y, box.min.y))

\* a union that tests its receiver before its argument
unionReceiverFirst(self, other) ==
    IF isEmpty(self) THEN other
    ELSE IF isEmpty(other) THEN self
    ELSE Box2D(Point(Min2(self.min.x, other.min.x), Min2(self.min.y, other.min.y)),
               Point(Max2(self.max.x, other.max.x), Max2(self.max.y, other.max.y)))

\* self.union(other)
union(self, other) ==
    IF isEmpty(other) THEN self
    ELSE IF isEmpty(self) THEN other
    ELSE Box2D(Point(Min2(self.min.x, other.min.x), Min2(self.min.y, other.min.y)),
               Point(Max2(self.max.x, other.max.x), Max2(self.max.y, other.max.y)))

boxWidth(box) == Minus(box.max.x, box.min.x)

boxHeight(box) == Minus(box.max.y, box.min.y)

\* box.size(): the width and the height
size(box) == [width |-> boxWidth(box), height |-> boxHeight(box)]

\* twice box.center(), which is (min + max) / 2 on each axis
center2(box) == Point(Plus(box.min.x, box.max.x), Plus(box.min.y, box.max.y))

inflate(box, w, h) ==
    Box2D(Point(Minus(box.min.x, w), Minus(box.min.y, h)),
          Point(Plus(box.max.x, w), Plus(box.max.y, h)))

(***************************************************************************)
(* The pure operations of the algebra, each called on operands drawn from  *)
(* a bounded set; calc records the call and what it returned.              *)
(***************************************************************************)
\* the corners of the boxes are drawn from 0..MaxCoord on each axis
MaxCoord == 2

Coords == 0..MaxCoord

\* every box with corners on the grid, the empty ones (max not above min on
\* an axis) included
Boxes == { Box2D(Point(x0, y0), Point(x1, y1)) : x0 \in Coords, y0 \in Coords,
                                                 x1 \in Coords, y1 \in Coords }

\* the components of the colours are drawn from 0..MaxColor
MaxColor == 1

ColorVectors == { <<r, g, 2, 1>> : r \in 0..MaxColor, g \in 0..MaxColor }

Colors == { <<r, r + 1, 2, 1>> : r \in 0..MaxColor }

BaseColorTransforms ==
    { ColorTransform(kind, v, <<>>) : kind \in {"Multiply", "Add"}, v \in ColorVectors }

\* the transforms the walker holds: the table's, and what combine makes of two
ColorTransforms ==
    BaseColorTransforms
        \cup { ColorCombine(a, b) : a \in BaseColorTransforms, b \in BaseColorTransforms }

InitAlgebra ==
    /\ calc = NotCalled
    /\ loader = NotCalled
    /\ video = NotCalled
    /\ found = NotCalled
    /\ ReadIdle
    /\ WalkIdle
    /\ DecodeIdle

notCalc == <<rdVars, walkVars, stVars, decVars, loader, video>>

\* a.union(b)
Union ==
    /\ calc = NotCalled
    /\ \E a \in Boxes, b \in Boxes :
          calc' = [op |-> "union", a |-> a, b |-> b, out |-> union(a, b)]
    /\ UNCHANGED notCalc

\* a.combine(b), and the fold of a colour by the result
Combine ==
    /\ calc = NotCalled
    /\ \E a \in ColorTransforms, b \in ColorTransforms, c \in Colors :
          calc' = [op |-> "combine", a |-> a, b |-> b, c |-> c, out |-> ColorCombine(a, b),
                   folded |-> ColorFold(ColorCombine(a, b), c)]
    /\ UNCHANGED notCalc

NextAlgebra ==
    \/ Union
    \/ Combine

SpecAlgebra == InitAlgebra /\ [][NextAlgebra]_vars

UnionCalled == calc # NotCalled /\ calc.op = "union"

(***************************************************************************)
(* C11 as stated.  Box2D.union is commutative for all boxes, two different *)
(* empty boxes included, idempotent, and the union with an empty box is    *)
(* the other box unchanged.                                                *)
(***************************************************************************)
C11_UnionCommutativeIdempotentEmptyNeutral ==
    UnionCalled =>
        /\ calc.out = union(calc.b, calc.a)
        /\ (calc.a = calc.b => calc.out = calc.a)
        /\ (isEmpty(calc.b) => calc.out = calc.a)
        /\ (isEmpty(calc.a) => calc.out = calc.b)

(***************************************************************************)
(* C11 as the code has it.  Box2D.union is commutative for all boxes that  *)
(* are not both empty (of two empty boxes each call returns its receiver), *)
(* idempotent, and the union with an empty argument is the receiver        *)
(* unchanged, the union of an empty receiver with a non-empty argument the *)
(* argument unchanged.                                                     *)
(***************************************************************************)
C11_UnionCommutativeUnlessBothEmpty ==
    UnionCalled =>
        /\ (~(isEmpty(calc.a) /\ isEmpty(calc.b)) => calc.out = union(calc.b, calc.a))
        /\ (isEmpty(calc.a) /\ isEmpty(calc.b) => calc.out = calc.a)
        /\ (calc.a = calc.b => calc.out = calc.a)
        /\ (isEmpty(calc.b) => calc.out = calc.a)
        /\ (isEmpty(calc.a) /\ ~isEmpty(calc.b) => calc.out = calc.b)

\* two different empty boxes have been united
C11_Witness ==
    /\ UnionCalled
    /\ isEmpty(calc.a)
    /\ isEmpty(calc.b)
    /\ calc.a # calc.b
    /\ calc.out = calc.a

CombineCalled == calc # NotCalled /\ calc.op = "combine"

SameKind(kind) == calc.a.kind = kind /\ calc.b.kind = kind

AnimationTypes ==
    {"npcs", "dynamics", "equipments", "gui", "interactives", "pets", "players", "resources"}

\* animationFile.replace('.anm', ''): the first occurrence goes
RECURSIVE replaceAnm(_)
replaceAnm(fileName) ==
    IF fileName = <<>> THEN <<>>
    ELSE IF Head(fileName) = ".anm" THEN Tail(fileName)
    ELSE <<Head(fileName)>> \o replaceAnm(Tail(fileName))

\* `animations/${type}/${id}.anm`
animationPath(type, id) == <<"animations", type>> \o id \o <<".anm">>

\* loadTexture: the path of the atlas it reads
loadTexture(type, animation) ==
    <<"animations", "npcs", "Atlas", animation.texture[1], ".png">>

\* the paths fromFile(type, id) reads, in the order it reads them
RECURSIVE fromFile(_, _, _)
RECURSIVE fromFileNames(_, _, _, _)
fromFileNames(fs, type, file_names, index) ==
    IF index > Len(file_names) THEN <<>>
    ELSE fromFile(fs, type, replaceAnm(file_names[index]))
             \o fromFileNames(fs, type, file_names, index + 1)

fromFile(fs, type, id) ==
    LET animation == fs[id[1]]
    IN  <<animationPath(type, id)>>
            \o fromFileNames(fs, type, animation.file_names, 1)
            \o (IF animation.texture # Absent
                THEN <<loadTexture(type, animation)>>
                ELSE <<>>)

\* the animation files of the game: 1 may name 2 and 3, 2 may name 3
TextureNames == { Absent, Present("a"), Present("b") }

AnimationFile(texture, file_names) == [texture |-> texture, file_names |-> file_names]

FileIds == {"1", "2", "3"}

FileSystems ==
    { [id \in FileIds |-> IF id = "1" THEN AnimationFile(t1, n1)
                          ELSE IF id = "2" THEN AnimationFile(t2, n2)
                          ELSE AnimationFile(t3, <<>>)] :
        t1 \in TextureNames, t2 \in TextureNames, t3 \in TextureNames,
        n1 \in { <<>>, << <<"2", ".anm">> >>, << <<"2", ".anm">>, <<"3", ".anm">> >> },
        n2 \in { <<>>, << <<"3", ".anm">> >> } }

InitLoad ==
    /\ loader = NotCalled
    /\ calc = NotCalled
    /\ video = NotCalled
    /\ found = NotCalled
    /\ ReadIdle
    /\ WalkIdle
    /\ DecodeIdle

notLoad == <<rdVars, walkVars, stVars, decVars, calc, video>>

\* AnimationRenderer.fromFile(type, id)
FromFile ==
    /\ loader = NotCalled
    /\ \E fs \in FileSystems, type \in AnimationTypes, id \in FileIds :
          loader' = [fs |-> fs, type |-> type, id |-> id, reads |-> fromFile(fs, type, <<id>>)]
    /\ UNCHANGED notLoad

NextLoad ==
    \/ FromFile

SpecLoad == InitLoad /\ [][NextLoad]_vars

IsAtlas(path) == path[3] = "Atlas"

(***************************************************************************)
(* C13.  Every atlas that fromFile(T, id) reads, for the animation itself  *)
(* and for each child renderer loaded from index.file_names, is            *)
(* animations/<T>/Atlas/<texture.name>.png: its directory is the type of   *)
(* the .anm file that was loaded.                                          *)
(***************************************************************************)
C13_AtlasUnderTheLoadedType ==
    loader # NotCalled =>
        \A k \in 1..Len(loader.reads) :
            IsAtlas(loader.reads[k]) => loader.reads[k][2] = loader.type

(***************************************************************************)
(* generateVideoFromBuffers, render.ts lines 727-789, a step at a time:    *)
(* the temporary directory, the frame files, the encoder, the clean-up.    *)
(* video.pc is where the call stands; video.outcome is how it will settle  *)
(* once its finally block has run.                                         *)
(***************************************************************************)
\* a rendered frame: the canvas it was drawn on and the shapes drawn
Image(fr, canvas, blits) == [frame |-> fr, canvas |-> canvas, blits |-> blits]

ZeroBox == Box2D(Point(0, 0), Point(0, 0))

\* the state of a renderVideo call that has not started
VideoCall(scale, frame_rate) ==
    [pc |-> "measure", scale |-> scale, frame_rate |-> frame_rate, frame |-> 0,
     bbox |-> ZeroBox, measured |-> <<>>, spriteMeasure |-> ZeroBox, canvas |-> size(ZeroBox),
     frames |-> <<>>, images |-> <<>>, framerate |-> 0, dir |-> "none", written |-> 0,
     handed |-> Absent, outcome |-> "none"]

\* tmpDir.removeCallback(): the directory goes, once
removeCallback(dir) == IF dir = "created" THEN "removed" ELSE dir

notVideo == <<rdVars, walkVars, stVars, decVars, calc, loader>>

\* dirSync({ unsafeCleanup: true })
DirSync ==
    /\ video.pc = "generate"
    /\ video' = [video EXCEPT !.pc = "write", !.dir = "created", !.written = 0]
    /\ UNCHANGED notVideo

\* dirSync throws: no directory, and the call rejects before its try block
DirSyncThrows ==
    /\ video.pc = "generate"
    /\ video' = [video EXCEPT !.pc = "rejected", !.outcome = "rejected"]
    /\ UNCHANGED notVideo

\* await writeFile(fileName, images[i])
WriteFile ==
    /\ video.pc = "write"
    /\ video.written < Len(video.images)
    /\ video' = [video EXCEPT !.written = @ + 1]
    /\ UNCHANGED notVideo

\* writeFile rejects
WriteFileFails ==
    /\ video.pc = "write"
    /\ video.written < Len(video.images)
    /\ video' = [video EXCEPT !.pc = "finally", !.outcome = "rejected"]
    /\ UNCHANGED notVideo

\* ffmpeg().input(...).inputOptions([`-framerate ${framerate}`, ...]).save(outputPath)
Save ==
    /\ video.pc = "write"
    /\ video.written = Len(video.images)
    /\ video' = [video EXCEPT !.pc = "encode",
                              !.handed = Present([files |-> video.written,
                                                  framerate |-> video.framerate])]
    /\ UNCHANGED notVideo

\* the encoder's 'end' event
EncoderEnd ==
    /\ video.pc = "encode"
    /\ video' = [video EXCEPT !.pc = "read"]
    /\ UNCHANGED notVideo

\* the encoder's 'error' event
EncoderError ==
    /\ video.pc = "encode"
    /\ video' = [video EXCEPT !.pc = "finally", !.outcome = "rejected"]
    /\ UNCHANGED notVideo

\* readFile(outputPath), tmpDir.removeCallback(), return video
ReadVideo ==
    /\ video.pc = "read"
    /\ video' = [video EXCEPT !.pc = "finally", !.outcome = "returned",
                              !.dir = removeCallback(@)]
    /\ UNCHANGED notVideo

\* readFile rejects
ReadVideoFails ==
    /\ video.pc = "read"
    /\ video' = [video EXCEPT !.pc = "finally", !.outcome = "rejected"]
    /\ UNCHANGED notVideo

\* a finally block that cleans nothing up
FinallyWithoutCleanup ==
    /\ video.pc = "finally"
    /\ video' = [video EXCEPT !.pc = video.outcome]
    /\ UNCHANGED notVideo

\* finally { tmpDir.removeCallback(); } and the call settles
Finally ==
    /\ video.pc = "finally"
    /\ video' = [video EXCEPT !.pc = video.outcome, !.dir = removeCallback(@)]
    /\ UNCHANGED notVideo

\* the number of images handed to generateVideoFromBuffers is 0..MaxImages
MaxImages == 3

FrameRates == {12, 25}

InitEncode ==
    /\ \E n \in 0..MaxImages, frame_rate \in FrameRates :
          video = [VideoCall(DEFAULT_SCALE, frame_rate) EXCEPT
                      !.pc = "generate",
                      !.images = [k \in 1..n |-> Image(k - 1, size(ZeroBox), <<>>)],
                      !.framerate = frame_rate]
    /\ calc = NotCalled
    /\ loader = NotCalled
    /\ found = NotCalled
    /\ ReadIdle
    /\ WalkIdle
    /\ DecodeIdle

NextEncode ==
    \/ DirSync
    \/ DirSyncThrows
    \/ WriteFile
    \/ WriteFileFails
    \/ Save
    \/ EncoderEnd
    \/ EncoderError
    \/ ReadVideo
    \/ ReadVideoFails
    \/ Finally

SpecEncode == InitEncode /\ [][NextEncode]_vars

Settled == video # NotCalled /\ video.pc \in {"returned", "rejected"}

(***************************************************************************)
(* C14.  When a generateVideoFromBuffers call returns or rejects, the      *)
(* temporary directory it created has been removed: after success, after a *)
(* failed frame write, after an encoder error (and after a failed read of  *)
(* the output).                                                            *)
(***************************************************************************)
C14_TmpDirRemovedWhenSettled ==
    Settled => video.dir # "created"

\* the call has rejected after the encoder reported an error, with the
\* frame files written
C14_Witness ==
    /\ Settled
    /\ video.pc = "rejected"
    /\ video.handed # Absent
    /\ video.written > 0
    /\ video.dir = "removed"

(***************************************************************************)
(* BinaryReader.read on its own: primitive and string reads, one after the *)
(* other, on every short buffer.                                           *)
(***************************************************************************)
\* the buffers have up to MaxBytes bytes
MaxBytes == 4

\* a terminator, a letter and the largest byte below 128
Bytes == {0, 65, 127}

Buffers == UNION { [1..n -> Bytes] : n \in 0..MaxBytes }

\* the reads of one run
MaxReads == 3

PrimitiveTypes == {"u8", "u16", "u32", "i8", "i16", "i32", "f32", "f64"}

InitPrimitive ==
    /\ input \in Buffers
    /\ file = <<[name |-> "bytes", bytes |-> input]>>
    /\ cursor = 0
    /\ fields = <<>>
    /\ phase = "reading"
    /\ ReadIdle
    /\ WalkIdle
    /\ StaticIdle
    /\ RestIdle

\* reader.read(type) for a primitive type
ReadPrimitiveOf(name) ==
    /\ phase = "reading"
    /\ file[1].name = "bytes"
    /\ Len(fields) < MaxReads
    /\ Field(name, readValue(input, cursor, Base(name)))
    /\ UNCHANGED <<file, input, notDecode>>

ReadPrimitive == \E name \in PrimitiveTypes : ReadPrimitiveOf(name)

\* reader.read('string')
ReadString ==
    /\ phase = "reading"
    /\ file[1].name = "bytes"
    /\ Len(fields) < MaxReads
    /\ Field("string", readValue(input, cursor, Base("string")))
    /\ UNCHANGED <<file, input, notDecode>>

NextPrimitive ==
    \/ ReadPrimitive
    \/ ReadString

SpecPrimitive == InitPrimitive /\ [][NextPrimitive]_vars

\* the positions of the zero bytes at or after the cursor
ZerosAhead == { i \in cursor..(Len(input) - 1) : At(input, i) = 0 }

FirstZero == CHOOSE i \in ZerosAhead : \A j \in ZerosAhead : i <= j

LastField == fields'[Len(fields')]

(***************************************************************************)
(* C15.  A string read returns the bytes before the first zero byte at or  *)
(* after the cursor and leaves the cursor just past that zero; with no     *)
(* zero byte before the end of the buffer it ends the decode with a fatal  *)
(* error and returns no string; and a primitive read that needs a byte     *)
(* past the end of the buffer is fatal as well, any other one is not.      *)
(***************************************************************************)
C15_StringToTerminatorAndPastEndFatal ==
    [][ /\ ReadString =>
              IF ZerosAhead = {}
              THEN phase' = "fatal" /\ fields' = fields
              ELSE /\ phase' = "reading"
                   /\ Len(fields') = Len(fields) + 1
                   /\ LastField.value = [k \in 1..(FirstZero - cursor) |-> input[cursor + k]]
                   /\ \A k \in 1..Len(LastField.value) : LastField.value[k] # 0
                   /\ cursor' = FirstZero + 1
        /\ \A name \in PrimitiveTypes :
              ReadPrimitiveOf(name) =>
                  /\ phase' = "fatal" <=> cursor + Width(name) > Len(input)
                  /\ phase' = "fatal" => fields' = fields
                  /\ phase' # "fatal" => cursor' = cursor + Width(name)
      ]_vars

\* a string has been read from the middle of the buffer, and a later read
\* has run past the end
C15_Witness ==
    /\ phase = "fatal"
    /\ Len(fields) = 2
    /\ fields[2].name = "string"
    /\ fields[2].from > 0
    /\ Len(fields[2].value) > 0
    /\ fields[2].to = fields[2].from + Len(fields[2].value) + 1
    /\ cursor < Len(input)

\* where the reader of a renderSprite call starts: 0, or framePos[index]
\* after the seek of a Frames payload
ReaderStart(sprite, fr) ==
    IF sprite.payload.kind = "Frames"
    THEN LET mult == IF Len(sprite.payload.actionInfo) = 0 THEN 2 ELSE 3
         IN  At(sprite.payload.framePos,
                Mod(fr, Div(Len(sprite.payload.framePos), mult)) * mult)
    ELSE 0

\* the call stack one step later, while the pass runs
Later == stack'

(***************************************************************************)
(* C17.  Within one renderSprite call the reader is shared by the          *)
(* renderById calls of its loop and consumed in order: it starts at 0, or  *)
(* at framePos[index] for a Frames payload; each renderById reads its      *)
(* opcode where the reader stands and leaves the reader where that opcode  *)
(* and its offsets end, which is where the next one reads; a call of       *)
(* renderSprite for a child starts a reader of its own at position 0 over  *)
(* the child's frameData; and nothing a call does moves the reader of any  *)
(* of its callers.                                                         *)
(***************************************************************************)
C17_ReaderSharedAndSequential ==
    [][ (status = "running" /\ status' = "running") =>
          /\ \A k \in 1..(Len(stack) - 1) : k <= Len(Later) => Later[k] = stack[k]
          /\ RenderSpriteEnter =>
                Later[Len(stack)].pos = ReaderStart(Top.ref.sprite, frame)
          /\ InLoop =>
                /\ ev'.tag = At(Top.ref.sprite.frameData, Top.pos)
                /\ Later[Len(stack)].pos = TopRead.pos
                /\ Later[Len(stack)].i = Top.i + 1
                /\ Later[Len(stack)].ref = Top.ref
          /\ Len(Later) > Len(stack) =>
                /\ Later[Len(Later)].pos = 0
                /\ Later[Len(Later)].pc = "enter"
                /\ Later[Len(Later)].ref.sprite
                       = resolve(world, Top.ref.animation, NextId).sprite.sprite
      ]_vars

\* a nested call reads its second opcode past position 0 while the reader
\* of its caller stands elsewhere, two reads on
C17_Witness ==
    /\ status = "running"
    /\ Len(stack) = 2
    /\ stack[1].pc = "loop"
    /\ stack[1].i >= 2
    /\ Top.pc = "loop"
    /\ Top.i = 2
    /\ Top.pos > 0
    /\ stack[1].pos # Top.pos
    /\ stack[1].pos > 0

(***************************************************************************)
(* findSpriteById on its own, on every renderer of the trees the walker    *)
(* renders.                                                                *)
(***************************************************************************)
InitFind ==
    /\ world \in Worlds
    /\ found = NotCalled
    /\ PassIdle
    /\ ReadIdle
    /\ DecodeIdle
    /\ RestIdle

\* animation.findSpriteById(id)
FindSpriteById ==
    /\ found = NotCalled
    /\ \E a \in 1..Len(world), id \in 1..3 :
          found' = [called |-> TRUE, animation |-> a, id |-> id,
                    result |-> findSpriteById(world, a, id)]
    /\ UNCHANGED <<world, start, frame, stack, log, nested, skipped, status, ev, results,
                   rdVars, decVars, restVars>>

NextFind ==
    \/ FindSpriteById

SpecFind == InitFind /\ [][NextFind]_vars

(***************************************************************************)
(* C19.  When findSpriteById(id) returns a result, the sprite returned has *)
(* the id asked for and is a sprite of the animation returned, which is    *)
(* the renderer asked; also when sprites share a name or have none.        *)
(***************************************************************************)
C19_FoundSpriteHasTheId ==
    (found.called /\ found.result # Null) =>
        /\ found.result.sprite.id = found.id
        /\ found.result.animation = found.animation
        /\ \E i \in 1..Len(world[found.animation].sprites) :
              world[found.animation].sprites[i] = found.result.sprite

(***************************************************************************)
(* The walker under the scheduling of the code: a render pass is one       *)
(* synchronous call, so a pass that can take a step takes it.  When the    *)
(* caller starts the next pass is up to the caller.  The trees are those   *)
(* of the walker in which a sprite names itself, two sprites name each     *)
(* other, or a sprite of the reference names a sprite of its parent.       *)
(***************************************************************************)
CycleWorlds ==
    { w \in Worlds :
        /\ w[1].sprites[1].payload \in { Single(1), Single(2), SingleFrame(<<2, 3>>) }
        /\ w[1].sprites[1].frameData = <<2, 0, 2, 1>>
        /\ w[1].sprites[2].id = 2
        /\ w[1].sprites[2].name = <<"B">>
        /\ w[1].sprites[2].payload \in { Single(1), SingleNoAction(3), FramesThree }
        /\ w[2].sprites[1].id = 3
        /\ Len(w[1].shapes) # 1 }

InitCycle ==
    /\ world \in CycleWorlds
    /\ start \in { loadSprite(world, 1, spriteName) : spriteName \in {<<"A">>, <<"B">>, <<"C">>} }
    /\ start # Null
    /\ frame = 0
    /\ stack = <<>>
    /\ log = <<>>
    /\ nested = {}
    /\ skipped = <<>>
    /\ status = "idle"
    /\ ev = NoEv
    /\ results = <<>>
    /\ ReadIdle
    /\ StaticIdle
    /\ DecodeIdle
    /\ RestIdle

PassStep ==
    \/ RenderSpriteEnter
    \/ RenderSpriteOverflow
    \/ RenderSpriteNoPayload
    \/ RenderSpriteReturn
    \/ RenderByIdMissing
    \/ RenderByIdSprite
    \/ RenderByIdShape
    \/ RenderByIdUnresolved

SpecWalkFair == InitCycle /\ [][NextWalk]_vars /\ WF_vars(PassStep)

transformPoint(self, p) ==
    Point(Plus(Plus(Times(p.x, self.m11), Times(p.y, self.m21)), self.m31),
          Plus(Plus(Times(p.x, self.m12), Times(p.y, self.m22)), self.m32))

Min4(s) == Min2(Min2(s[1], s[2]), Min2(s[3], s[4]))

Max4(s) == Max2(Max2(s[1], s[2]), Max2(s[3], s[4]))

outerTransformedBox(self, box) ==
    LET points == << transformPoint(self, box.min),
                     transformPoint(self, box.max),
                     transformPoint(self, Point(box.max.x, box.min.y)),
                     transformPoint(self, Point(box.min.x, box.max.y)) >>
        xs == [k \in 1..4 |-> points[k].x]
        ys == [k \in 1..4 |-> points[k].y]
    IN  Box2D(Point(Min4(xs), Min4(ys)), Point(Max4(xs), Max4(ys)))

\* the rectangle of a shape
rectOf(shape) ==
    fromOriginAndSize(shape.offset_x, shape.offset_y, shape.width, shape.height)

\* a measurer that keeps the box of its last call only
measureLatest(bbox, shape, transform) ==
    outerTransformedBox(transform.position, rectOf(shape))

\* Measurer.render: the bbox after the call
measure(bbox, shape, transform) ==
    union(outerTransformedBox(transform.position, rectOf(shape)), bbox)

\* the bbox after the calls of Measurer.render a pass has made, in order
RECURSIVE measureLog(_, _)
measureLog(bbox, blits) ==
    IF blits = <<>> THEN bbox
    ELSE measureLog(measure(bbox, Head(blits).shape, Head(blits).transform), Tail(blits))

\* n / 2
Half(n) == IF n = NaN THEN NaN ELSE n \div 2

\* get scale: (index?.scale ?? 1) * DEFAULT_SCALE
scaleOf(indexScale) == Times(IF indexScale = Absent THEN 1 ELSE indexScale[1], DEFAULT_SCALE)

\* width / 2 - center.x and height / 2 - center.y, over the denominator 2
translationTransform(measurement) ==
    SpriteTranslate(Half(Minus(size(measurement).width, center2(measurement).x)),
                    Half(Minus(size(measurement).height, center2(measurement).y)))

\* renderFrame: scaleTransform.combine(translationTransform)
defaultTransform(scale, measurement) ==
    SpriteCombine(SpriteScale(scale, scale), translationTransform(measurement))

FRAME_PADDING == 16

(***************************************************************************)
(* renderVideo, render.ts lines 791-807: measureSprite over every frame,   *)
(* renderFrameAsImage for every frame, generateVideoFromBuffers.  The      *)
(* passes are those of the walker; video.pc is the loop renderVideo is in. *)
(***************************************************************************)
\* index.scale of the animation rendered
IndexScales == { Absent, Present(3) }

\* a table whose first rotation is the zero matrix
CollapsedTable == TransformTable(<<2, 3, 5, 7, 11>>, <<0, 0, 0, 0>>, <<10, 20, 30>>)

Shape4 == Shape(4, 4, 6, 1, 1)

\* a tree whose first sprite draws shape 4 under the zero matrix and shape 3
\* under a translation
CollapsedWorld ==
    << Renderer(<< Sprite(1, <<"A">>, SingleFrame(<<4, 3>>), <<1, 0, 2, 0>>),
                   Sprite(2, <<"B">>, SingleNoAction(3), <<0>>) >>,
                <<Shape3, Shape4>>, CollapsedTable, <<2>>, 0),
       Renderer(<< Sprite(3, <<"C">>, SingleNoAction(3), <<0>>) >>,
                <<RefShape1, RefShape3>>, Null, <<>>, 1) >>

VideoWorlds ==
    { w \in Worlds :
        /\ w[1].sprites[1].frameData = <<2, 0, 2, 1>>
        /\ w[1].sprites[2].id = 2
        /\ w[1].sprites[2].name = <<"B">>
        /\ Len(w[1].shapes) # 1 }
      \cup { CollapsedWorld }

InitVideo ==
    /\ world \in VideoWorlds
    /\ start \in { loadSprite(world, 1, spriteName) : spriteName \in {<<"A">>, <<"B">>, <<"C">>} }
    /\ start # Null
    /\ \E indexScale \in IndexScales, frame_rate \in FrameRates :
          video = VideoCall(scaleOf(indexScale), frame_rate)
    /\ frame = 0
    /\ stack = <<>>
    /\ log = <<>>
    /\ nested = {}
    /\ skipped = <<>>
    /\ status = "idle"
    /\ ev = NoEv
    /\ results = <<>>
    /\ calc = NotCalled
    /\ loader = NotCalled
    /\ found = NotCalled
    /\ ReadIdle
    /\ DecodeIdle

\* renderer.renderSprite(sprite, transform, frame) is called: a pass begins
BeginPass(transform) ==
    /\ frame' = video.frame
    /\ stack' = <<Call(start, transform)>>
    /\ log' = <<>>
    /\ nested' = {}
    /\ skipped' = <<>>
    /\ status' = "running"
    /\ ev' = NoEv
    /\ UNCHANGED <<world, start, results, rdVars, stVars, decVars, calc, loader>>

\* a pass has returned to the loop that called it
EndPass ==
    /\ status' = "idle"
    /\ UNCHANGED <<world, start, frame, stack, log, nested, skipped, ev, results,
                   rdVars, stVars, decVars, calc, loader>>

\* measureSprite: measurer.renderSprite(sprite, SpriteTransform.scale(scale, scale), frame)
MeasureFrame ==
    /\ video.pc = "measure"
    /\ status = "idle"
    /\ video.frame < countFrames(start.sprite)
    /\ BeginPass(SpriteScale(video.scale, video.scale))
    /\ UNCHANGED video

\* the pass is over: the measurer holds the box of its blits, and the loop
\* goes on
MeasureFrameEnd ==
    /\ video.pc = "measure"
    /\ status = "done"
    /\ video' = [video EXCEPT !.bbox = measureLog(@, log),
                              !.measured = Append(@, frame),
                              !.frame = @ + 1]
    /\ EndPass

\* measureSprite returns; the measurement is inflated and the second loop
\* begins
MeasureSpriteReturn ==
    /\ video.pc = "measure"
    /\ status = "idle"
    /\ video.frame >= countFrames(start.sprite)
    /\ video' = [video EXCEPT !.pc = "render", !.frame = 0,
                              !.spriteMeasure = inflate(video.bbox, FRAME_PADDING, FRAME_PADDING)]
    /\ UNCHANGED notVideo

\* renderFrameAsImage(sprite, spriteMeasure, frame): renderFrame makes the
\* canvas and calls renderSprite
RenderFrameAsImage ==
    /\ video.pc = "render"
    /\ status = "idle"
    /\ video.frame < countFrames(start.sprite)
    /\ video' = [video EXCEPT !.canvas = size(video.spriteMeasure)]
    /\ BeginPass(defaultTransform(video.scale, video.spriteMeasure))

\* the canvas is pushed as an image, and the loop goes on
RenderFrameAsImageEnd ==
    /\ video.pc = "render"
    /\ status = "done"
    /\ video' = [video EXCEPT !.frames = Append(@, Image(frame, video.canvas, log)),
                              !.frame = @ + 1]
    /\ EndPass

\* an error of a pass leaves renderVideo
RenderVideoThrows ==
    /\ video.pc \in {"measure", "render"}
    /\ status \in {"MissingTransform", "TypeError", "RangeError"}
    /\ video' = [video EXCEPT !.pc = "rejected", !.outcome = "rejected"]
    /\ EndPass

\* generateVideoFromBuffers(sprite.sprite, frames, this.animation.frame_rate)
GenerateVideoFromBuffers ==
    /\ video.pc = "render"
    /\ status = "idle"
    /\ video.frame >= countFrames(start.sprite)
    /\ video' = [video EXCEPT !.pc = "generate", !.images = video.frames,
                              !.framerate = video.frame_rate]
    /\ UNCHANGED notVideo

NextVideo ==
    \/ MeasureFrame
    \/ MeasureFrameEnd
    \/ MeasureSpriteReturn
    \/ RenderFrameAsImage
    \/ RenderFrameAsImageEnd
    \/ RenderVideoThrows
    \/ GenerateVideoFromBuffers
    \/ RenderSpriteEnter
    \/ RenderSpriteOverflow
    \/ RenderSpriteNoPayload
    \/ RenderSpriteReturn
    \/ RenderByIdMissing
    \/ RenderByIdSprite
    \/ RenderByIdShape
    \/ RenderByIdUnresolved
    \/ DirSync
    \/ DirSyncThrows
    \/ WriteFile
    \/ WriteFileFails
    \/ Save
    \/ EncoderEnd
    \/ EncoderError
    \/ ReadVideo
    \/ ReadVideoFails
    \/ Finally

SpecVideo == InitVideo /\ [][NextVideo]_vars

\* frameCount as the claim has it: 1, or framePos.length / mult
FrameCount ==
    IF start.sprite.payload.kind = "Frames"
    THEN Len(start.sprite.payload.framePos)
             \div (IF Len(start.sprite.payload.actionInfo) = 0 THEN 2 ELSE 3)
    ELSE 1

\* renderVideo has called generateVideoFromBuffers
Generated == video # NotCalled /\ video.framerate # 0

(***************************************************************************)
(* C16.  When renderVideo hands its frames to the encoder, they are        *)
(* exactly frameCount images, of the frames 0, 1, ..., frameCount-1 in     *)
(* that order, frameCount being 1 for a payload that is not Frames and     *)
(* framePos.length / mult for Frames; the box was measured once, over      *)
(* every frame in order, before the first frame was rendered; every frame  *)
(* was rendered on a canvas of the size of that one box, inflated; and the *)
(* encoder gets the frame_rate of the animation.                           *)
(***************************************************************************)
C16_VideoRendersEveryFrameOnce ==
    Generated =>
        /\ Len(video.images) = FrameCount
        /\ \A k \in 1..Len(video.images) :
              /\ video.images[k].frame = k - 1
              /\ video.images[k].canvas = size(video.spriteMeasure)
        /\ video.measured = [k \in 1..FrameCount |-> k - 1]
        /\ video.spriteMeasure = inflate(video.bbox, FRAME_PADDING, FRAME_PADDING)
        /\ video.framerate = video.frame_rate
        /\ video.handed # Absent =>
              /\ video.handed[1].framerate = video.frame_rate
              /\ video.handed[1].files = FrameCount

\* a sprite of three frames has been rendered and encoded, its frames
\* differing in what they draw
C16_Witness ==
    /\ Generated
    /\ video.pc = "returned"
    /\ FrameCount = 3
    /\ Len(video.images) = 3
    /\ video.images[1].blits # video.images[3].blits
    /\ video.handed # Absent

\* a <= b, which is false when either is NaN
AtMost(a, b) == a # NaN /\ b # NaN /\ a <= b

\* the four corners of the rectangle of a blit, transformed
Corners(blit) ==
    LET rect == rectOf(blit.shape)
    IN  { transformPoint(blit.transform.position, p) :
            p \in { rect.min, rect.max, Point(rect.max.x, rect.min.y),
                    Point(rect.min.x, rect.max.y) } }

Inside(p, box) ==
    /\ AtMost(box.min.x, p.x)
    /\ AtMost(p.x, box.max.x)
    /\ AtMost(box.min.y, p.y)
    /\ AtMost(p.y, box.max.y)

\* box is the smallest box that holds every corner of the blits
SmallestBoxOf(box, blits) ==
    LET corners == UNION { Corners(blits[k]) : k \in 1..Len(blits) }
    IN  /\ \A p \in corners : Inside(p, box)
        /\ \E p \in corners : p.x = box.min.x
        /\ \E p \in corners : p.x = box.max.x
        /\ \E p \in corners : p.y = box.min.y
        /\ \E p \in corners : p.y = box.max.y

\* the blits of a shape with a width and a height
OfNonEmptyShapes(blits) ==
    SelectSeq(blits, LAMBDA b : b.shape.width > 0 /\ b.shape.height > 0)

\* the blits whose transformed rectangle has a box with a width and a height
OfNonEmptyBoxes(blits) ==
    SelectSeq(blits, LAMBDA b :
        ~isEmpty(outerTransformedBox(b.transform.position, rectOf(b.shape))))

Measuring == video # NotCalled /\ video.pc = "measure" /\ status \in {"running", "done"}

Rendering == video # NotCalled /\ video.pc = "render" /\ status \in {"running", "done"}

\* the canvas of the frame being rendered, as a box
CanvasBox == Box2D(Point(0, 0), Point(video.canvas.width, video.canvas.height))

NoNaN(box) == NaN \notin {box.min.x, box.min.y, box.max.x, box.max.y}

\* the centring translation takes the min corner of the measurement to (0, 0)
Centred ==
    LET t == translationTransform(video.spriteMeasure).position
    IN  transformPoint(t, video.spriteMeasure.min) = Point(0, 0)

(***************************************************************************)
(* C18 as stated.  The box of the measurer for a frame is the smallest box *)
(* that holds the transformed rectangle of every non-empty shape blitted   *)
(* at that frame; and when the frame is rendered with the measurement of   *)
(* the sprite inflated by 16, the centring translation takes the min       *)
(* corner of the measurement to (0,0) and the transformed rectangle of     *)
(* every shape blitted lies inside the canvas.                             *)
(***************************************************************************)
C18_BoxHoldsEveryNonEmptyShape ==
    /\ (Measuring /\ OfNonEmptyShapes(log) # <<>>) =>
          SmallestBoxOf(measureLog(ZeroBox, log), OfNonEmptyShapes(log))
    /\ Rendering =>
          /\ Centred
          /\ \A k \in 1..Len(log) : \A p \in Corners(log[k]) : Inside(p, CanvasBox)

(***************************************************************************)
(* C18 as the code has it.  The box of the measurer for a frame is the     *)
(* smallest box that holds the transformed rectangle of every shape        *)
(* blitted at that frame whose transformed rectangle has a non-empty box   *)
(* (a width and a height above 0, no NaN); and when the frame is rendered  *)
(* with the measurement of the sprite inflated by 16, the centring         *)
(* translation takes the min corner of the measurement to (0,0), unless    *)
(* the measurement is NaN, and the transformed rectangle of every such     *)
(* shape lies inside the canvas.                                           *)
(***************************************************************************)
C18_BoxHoldsEveryNonEmptyTransformedBox ==
    /\ (Measuring /\ OfNonEmptyBoxes(log) # <<>>) =>
          SmallestBoxOf(measureLog(ZeroBox, log), OfNonEmptyBoxes(log))
    /\ Rendering =>
          /\ NoNaN(video.spriteMeasure) => Centred
          /\ \A k \in 1..Len(OfNonEmptyBoxes(log)) :
                \A p \in Corners(OfNonEmptyBoxes(log)[k]) : Inside(p, CanvasBox)

\* a frame has been rendered in which a shape collapsed by its transform
\* lies outside the canvas, and a shape with a box inside it
C18_Witness ==
    /\ Rendering
    /\ status = "done"
    /\ NoNaN(video.spriteMeasure)
    /\ Len(log) = 2
    /\ Len(OfNonEmptyBoxes(log)) = 1
    /\ \E p \in Corners(log[1]) : p # Point(NaN, NaN) /\ ~Inside(p, CanvasBox)
    /\ LET b == OfNonEmptyBoxes(log)[1]
       IN  video.canvas.width
               = boxWidth(outerTransformedBox(b.transform.position, rectOf(b.shape)))
                   + 2 * FRAME_PADDING

====
